---------------------------- MODULE Spec2Model ----------------------------
(***************************************************************************)
(* A model of the e-commerce cart agent scripts:                           *)
(*   src/web_cart_agent.py               WebCartAgent, run_from_json,      *)
(*                                       run_interactive, main             *)
(*   src/web_cart_ui.py                  create_temp_config, run_cart_agent*)
(*   src/ecommerce_cart_agent.py         EcommerceCartAgent, main          *)
(*   src/ecommerce_cart_agent_advanced.py EcommerceCartAgent,              *)
(*                                       run_interactive                   *)
(*                                                                         *)
(* Text is a sequence of tokens.  A token is a one-character string (a     *)
(* separator, a blank, a digit, a sign) or a word that holds none of       *)
(* these.  split, strip, lower, upper and int are computed on tokens.      *)
(***************************************************************************)
EXTENDS Integers, Sequences, FiniteSets, TLC

(***************************************************************************)
(* Python text primitives                                                  *)
(***************************************************************************)
Whitespace == {" ", "\n", "\t"}

Digits == {"0", "1", "2", "3", "4", "5", "6", "7", "8", "9"}

DigitValue(d) ==
    CASE d = "0" -> 0 [] d = "1" -> 1 [] d = "2" -> 2 [] d = "3" -> 3
      [] d = "4" -> 4 [] d = "5" -> 5 [] d = "6" -> 6 [] d = "7" -> 7
      [] d = "8" -> 8 [] d = "9" -> 9

\* str.lower() on one word
LowerTok(t) ==
    CASE t \in {"Amazon", "AMAZON"} -> "amazon"
      [] t \in {"Walmart", "WALMART"} -> "walmart"
      [] t \in {"Target", "TARGET"} -> "target"
      [] t \in {"BestBuy", "BESTBUY"} -> "bestbuy"
      [] t \in {"eBay", "EBAY"} -> "ebay"
      [] t \in {"Newegg", "NEWEGG"} -> "newegg"
      [] t \in {"Flipkart", "FLIPKART"} -> "flipkart"
      [] t \in {"Etsy", "ETSY"} -> "etsy"
      [] t \in {"WWW"} -> "www"
      [] t \in {"HTTPS://"} -> "https://"
      [] t \in {"True", "TRUE"} -> "true"
      [] t \in {"False", "FALSE"} -> "false"
      [] t \in {"Y"} -> "y"
      [] t \in {"N"} -> "n"
      [] OTHER -> t

\* str.upper() on one word
UpperTok(t) ==
    CASE t \in {"Amazon", "amazon"} -> "AMAZON"
      [] t \in {"Walmart", "walmart"} -> "WALMART"
      [] t \in {"Target", "target"} -> "TARGET"
      [] t \in {"BestBuy", "bestbuy"} -> "BESTBUY"
      [] t \in {"eBay", "ebay"} -> "EBAY"
      [] t \in {"Newegg", "newegg"} -> "NEWEGG"
      [] t \in {"Flipkart", "flipkart"} -> "FLIPKART"
      [] t \in {"Etsy", "etsy"} -> "ETSY"
      [] t \in {"www"} -> "WWW"
      [] t \in {"https://"} -> "HTTPS://"
      [] OTHER -> t

lower(s) == [i \in 1..Len(s) |-> LowerTok(s[i])]

upper(s) == [i \in 1..Len(s) |-> UpperTok(s[i])]

RECURSIVE IndexOf(_, _, _)
\* the first position >= i of token c in s, 0 when there is none
IndexOf(s, c, i) ==
    IF i > Len(s) THEN 0
    ELSE IF s[i] = c THEN i
    ELSE IndexOf(s, c, i + 1)

RECURSIVE split(_, _)
\* str.split(sep): the parts between the occurrences of sep
split(s, sep) ==
    LET k == IndexOf(s, sep, 1)
    IN  IF k = 0 THEN <<s>>
        ELSE <<SubSeq(s, 1, k - 1)>> \o split(SubSeq(s, k + 1, Len(s)), sep)

\* str.split(sep, 1): at most one cut
split1(s, sep) ==
    LET k == IndexOf(s, sep, 1)
    IN  IF k = 0 THEN <<s>>
        ELSE <<SubSeq(s, 1, k - 1), SubSeq(s, k + 1, Len(s))>>

RECURSIVE lstrip(_)
lstrip(s) ==
    IF s # <<>> /\ Head(s) \in Whitespace THEN lstrip(Tail(s)) ELSE s

RECURSIVE rstrip(_)
rstrip(s) ==
    IF s # <<>> /\ s[Len(s)] \in Whitespace
    THEN rstrip(SubSeq(s, 1, Len(s) - 1))
    ELSE s

\* str.strip()
strip(s) == rstrip(lstrip(s))

RECURSIVE DecValue(_, _)
\* the value of a run of decimal digits, acc the value read so far
DecValue(s, acc) ==
    IF s = <<>> THEN acc
    ELSE DecValue(Tail(s), 10 * acc + DigitValue(Head(s)))

AllDigits(s) == s # <<>> /\ \A i \in 1..Len(s) : s[i] \in Digits

\* int(text): blanks around, an optional sign, decimal digits; otherwise
\* ValueError
int(s) ==
    LET t == strip(s)
        signed == t # <<>> /\ Head(t) \in {"+", "-"}
        body == IF signed THEN Tail(t) ELSE t
    IN  IF AllDigits(body)
        THEN [ok |-> TRUE,
              v |-> IF signed /\ Head(t) = "-"
                    THEN 0 - DecValue(body, 0)
                    ELSE DecValue(body, 0)]
        ELSE [ok |-> FALSE, exc |-> "ValueError"]

\* str(bool)
str(b) == IF b THEN <<"True">> ELSE <<"False">>

(***************************************************************************)
(* Python values that may be None                                          *)
(***************************************************************************)
None == [t |-> "none"]

Some(v) == [t |-> "some", v |-> v]

\* truth value of an optional text or dict (sequence): None and empty are
\* false
Truthy(o) == o.t = "some" /\ o.v # <<>>

(***************************************************************************)
(* dict as an insertion-ordered sequence of <<key, value>> pairs           *)
(***************************************************************************)
Keys(d) == {d[i][1] : i \in 1..Len(d)}

HasKey(d, k) == k \in Keys(d)

Get(d, k, default) ==
    IF HasKey(d, k)
    THEN d[CHOOSE i \in 1..Len(d) : d[i][1] = k][2]
    ELSE default

\* d[k] = v
Put(d, k, v) ==
    IF HasKey(d, k)
    THEN [i \in 1..Len(d) |-> IF d[i][1] = k THEN <<k, v>> ELSE d[i]]
    ELSE Append(d, <<k, v>>)

(***************************************************************************)
(* State                                                                   *)
(***************************************************************************)
VARIABLES
    prog,    \* the script that runs
    pc,      \* its position
    argv,    \* sys.argv[1]: None or Some(path)
    env,     \* os.environ: a function from variable names to text
    fsys,    \* the file system: [files, dirs, json]
    loc,     \* the local variables of the running function
    agent,   \* the agent object once constructed, NoAgent before
    events,  \* what the script has done so far: calls, prints, prompts
    raised,  \* the exception that left the script, <<>> when none
    file,    \* web_cart_ui: temp_cart_config.json, None while it does not exist
    inv      \* web_cart_ui: the run_cart_agent invocations

vars == <<prog, pc, argv, env, fsys, loc, agent, events, raised, file, inv>>

(***************************************************************************)
(* The operating system as the scripts see it                              *)
(***************************************************************************)
\* os.getenv(key, default)
os_getenv(key, default) == IF key \in DOMAIN env THEN env[key] ELSE default

\* os.getenv(key): None when unset
os_getenv0(key) == IF key \in DOMAIN env THEN Some(env[key]) ELSE None

isfile(p) == p \in fsys.files

isdir(p) == p \in fsys.dirs

\* os.path.join(a, b) for a relative b
path_join(a, b) ==
    IF a # <<>> /\ a[Len(a)] = "/" THEN a \o b ELSE a \o <<"/">> \o b

RECURSIVE LastIndexOf(_, _, _)
LastIndexOf(s, c, i) ==
    IF i = 0 THEN 0
    ELSE IF s[i] = c THEN i
    ELSE LastIndexOf(s, c, i - 1)

\* os.path.basename(p)
basename(p) == SubSeq(p, LastIndexOf(p, "/", Len(p)) + 1, Len(p))

\* text.replace(tok, '')
remove(s, tok) == SelectSeq(s, LAMBDA x : x # tok)

\* word in text
contains(s, word) == \E i \in 1..Len(s) : s[i] = word

\* text.endswith(tok)
endswith(s, tok) == s # <<>> /\ s[Len(s)] = tok

(***************************************************************************)
(* web_cart_agent.WebCartAgent                                             *)
(***************************************************************************)
ASK_USER == <<"<<ASK_USER>>">>

DefaultWidth == 1280

DefaultHeight == 800

\* a plausible slip in _get_credentials: the environment is consulted
\* whatever was provided, and its values win
_get_credentials_env_first(website, provided_credentials) ==
    LET credentials == IF Truthy(provided_credentials)
                       THEN provided_credentials.v
                       ELSE <<>>
        site_upper == upper(split(website, ".")[1])
        username == os_getenv0(site_upper \o <<"_USERNAME">>)
        password == os_getenv0(site_upper \o <<"_PASSWORD">>)
        withUser == IF Truthy(username)
                    THEN Put(credentials, "username", username.v)
                    ELSE credentials
        withBoth == IF Truthy(password)
                    THEN Put(withUser, "password", password.v)
                    ELSE withUser
        c1 == IF ~HasKey(withBoth, "username")
              THEN Put(withBoth, "username", ASK_USER)
              ELSE withBoth
    IN  IF ~HasKey(c1, "password") THEN Put(c1, "password", ASK_USER) ELSE c1

\* WebCartAgent._get_credentials: the dict the agent keeps
_get_credentials(website, provided_credentials) ==
    LET credentials == IF Truthy(provided_credentials)
                       THEN provided_credentials.v
                       ELSE <<>>
        site_upper == upper(split(website, ".")[1])
        username == os_getenv0(site_upper \o <<"_USERNAME">>)
        password == os_getenv0(site_upper \o <<"_PASSWORD">>)
        withUser == IF Truthy(username)
                    THEN Put(credentials, "username", username.v)
                    ELSE credentials
        withBoth == IF Truthy(password)
                    THEN Put(withUser, "password", password.v)
                    ELSE withUser
        fromEnv == IF credentials = <<>> THEN withBoth ELSE credentials
        c1 == IF ~HasKey(fromEnv, "username")
              THEN Put(fromEnv, "username", ASK_USER)
              ELSE fromEnv
    IN  IF ~HasKey(c1, "password") THEN Put(c1, "password", ASK_USER) ELSE c1

\* WebCartAgent._resolve_app_path: the executable inside a macOS .app
_resolve_app_path(app_path) ==
    IF contains(app_path, "Brave")
    THEN path_join(app_path, <<"Contents/MacOS/", "Brave", " ", "Browser">>)
    ELSE IF contains(app_path, "Chrome")
    THEN path_join(app_path, <<"Contents/MacOS/", "Google", " ", "Chrome">>)
    ELSE IF contains(app_path, "Firefox")
    THEN path_join(app_path, <<"Contents/MacOS/", "firefox">>)
    ELSE IF contains(app_path, "Safari")
    THEN path_join(app_path, <<"Contents/MacOS/", "Safari">>)
    ELSE IF contains(app_path, "Edge")
    THEN path_join(app_path, <<"Contents/MacOS/", "Microsoft", " ", "Edge">>)
    ELSE path_join(app_path,
                   <<"Contents/MacOS/">> \o remove(basename(app_path), ".app"))

\* a plausible slip in __init__: every configuration is made visible
BrowserConfig_visible(headless, browser_instance_path) ==
    [headless |-> FALSE, browser_instance_path |-> browser_instance_path]

\* BrowserConfig(headless=..., browser_instance_path=...): width and height
\* are not among the arguments the constructor passes
BrowserConfig(headless, browser_instance_path) ==
    [headless |-> headless, browser_instance_path |-> browser_instance_path]

\* a plausible slip in _create_task: the Quantity line is written only for
\* an item that has a quantity
FormatItem_quantity_if_given(i, item) ==
    LET name == Get(item, "name", <<>>)
        description == Get(item, "description", <<>>)
        options == Get(item, "options", <<>>)
    IN  <<[line |-> "Item", i |-> i, text |-> name]>>
        \o (IF description # <<>>
            THEN <<[line |-> "Description", text |-> description]>>
            ELSE <<>>)
        \o (IF HasKey(item, "quantity")
            THEN <<[line |-> "Quantity", q |-> Get(item, "quantity", 1)]>>
            ELSE <<>>)
        \o (IF options # <<>>
            THEN <<[line |-> "Options"]>>
                 \o [k \in 1..Len(options) |->
                        [line |-> "Option", key |-> options[k][1],
                         value |-> options[k][2]]]
            ELSE <<>>)
        \o <<[line |-> "Blank"]>>

\* one entry of items_formatted in WebCartAgent._create_task
FormatItem(i, item) ==
    LET name == Get(item, "name", <<>>)
        description == Get(item, "description", <<>>)
        quantity == Get(item, "quantity", 1)
        options == Get(item, "options", <<>>)
    IN  <<[line |-> "Item", i |-> i, text |-> name]>>
        \o (IF description # <<>>
            THEN <<[line |-> "Description", text |-> description]>>
            ELSE <<>>)
        \o <<[line |-> "Quantity", q |-> quantity]>>
        \o (IF options # <<>>
            THEN <<[line |-> "Options"]>>
                 \o [k \in 1..Len(options) |->
                        [line |-> "Option", key |-> options[k][1],
                         value |-> options[k][2]]]
            ELSE <<>>)
        \o <<[line |-> "Blank"]>>

RECURSIVE FormatItems(_, _)
\* items_formatted for the items from position i on
FormatItems(items, i) ==
    IF i > Len(items) THEN <<>>
    ELSE FormatItem(i, items[i]) \o FormatItems(items, i + 1)

\* a plausible slip in _create_task: a site's entry is missing from the table
site_instructions_without_flipkart ==
    {"amazon", "walmart", "target", "bestbuy", "ebay", "newegg"}

\* the keys of site_instructions in WebCartAgent._create_task
site_instructions ==
    {"amazon", "walmart", "target", "bestbuy", "ebay", "newegg", "flipkart"}

\* site_name in WebCartAgent._create_task
site_name(website) == lower(split(website, ".")[1])

\* the instruction block _create_task selects: a known site's own or the
\* generic one
site_specific(website) ==
    LET name == site_name(website)
    IN  IF Len(name) = 1 /\ name[1] \in site_instructions
        THEN name[1]
        ELSE "generic"

\* WebCartAgent._create_task: the prompt, as its parts in order
_create_task(website, items, credentials) ==
    <<[part |-> "base_task",
       website |-> website,
       items_formatted |-> FormatItems(items, 1),
       username |-> Get(credentials, "username", ASK_USER),
       password |-> Get(credentials, "password", ASK_USER)],
      [part |-> "site_specific", block |-> site_specific(website)]>>

\* WebCartAgent.__init__: the object, or the exception it raises
WebCartAgent(website, items, credentials, headless, browser_instance_path) ==
    LET creds == _get_credentials(website, credentials)
        headless1 == lower(os_getenv(<<"BROWSER_HEADLESS">>, str(headless)))
                        = <<"true">>
        width == IF <<"BROWSER_WIDTH">> \in DOMAIN env
                 THEN int(env[<<"BROWSER_WIDTH">>])
                 ELSE [ok |-> TRUE, v |-> DefaultWidth]
        height == IF <<"BROWSER_HEIGHT">> \in DOMAIN env
                  THEN int(env[<<"BROWSER_HEIGHT">>])
                  ELSE [ok |-> TRUE, v |-> DefaultHeight]
        path == IF ~Truthy(browser_instance_path)
                THEN os_getenv0(<<"BROWSER_INSTANCE_PATH">>)
                ELSE browser_instance_path
        full_path == _resolve_app_path(path.v)
        direct == Truthy(path) /\ isfile(path.v)
        resolved == /\ Truthy(path)
                    /\ ~isfile(path.v)
                    /\ endswith(path.v, ".app")
                    /\ isdir(path.v)
                    /\ full_path # <<>>
                    /\ isfile(full_path)
        browser_config ==
            IF direct THEN BrowserConfig(FALSE, Some(path.v))
            ELSE IF resolved THEN BrowserConfig(FALSE, Some(full_path))
            ELSE BrowserConfig(headless1, None)
    IN  IF ~width.ok \/ ~height.ok
        THEN [ok |-> FALSE, exc |-> "ValueError"]
        ELSE [ok |-> TRUE,
              website |-> website,
              items |-> items,
              credentials |-> creds,
              browser_instance_path |-> path,
              browser_process |-> None,
              custom_browser_used |-> direct \/ resolved,
              browser |-> [config |-> browser_config, closed |-> FALSE],
              task |-> _create_task(website, items, creds)]

NoAgent == [ok |-> FALSE, exc |-> "none"]

\* how the awaited call into the external agent, self.agent.run(), can end
AgentOutcomes == {"returns", "Exception", "BaseException"}

print(m) == [e |-> "print", m |-> m]

\* a plausible slip in cleanup: it closes the browser
cleanup_closes_browser(a) ==
    <<[e |-> "cleanup"], [e |-> "browser.close"],
      print("All resources have been preserved for continued use.")>>

\* WebCartAgent.cleanup: two prints, nothing is closed; what it does
cleanup(a) ==
    <<[e |-> "cleanup"],
      print("Task complete. The browser window will remain open so you can continue shopping."),
      print("All resources have been preserved for continued use.")>>

\* WebCartAgent.run up to the await of self.agent.run()
run_begin(a) ==
    <<[e |-> "WebCartAgent.run"],
      print("Starting web cart agent"),
      [e |-> "print", m |-> "Adding item(s) to cart", n |-> Len(a.items)],
      [e |-> "agent.run"]>>

\* a plausible slip in WebCartAgent.run: an except clause too narrow for the
\* agent's failures
run_catches_nothing(outcome) == FALSE

\* whether WebCartAgent.run handles the way the agent call ended: the
\* except clause names Exception
run_catches(outcome) == outcome = "Exception"

\* WebCartAgent.run from the end of the agent call on: what it does, and the
\* exception that leaves it ("" when it returns)
run_end(a, outcome) ==
    IF outcome = "returns"
    THEN [events |->
            <<print("Task completed successfully. All items have been added to cart")>>
            \o (IF a.custom_browser_used
                THEN <<print("Task complete. The browser window will remain open so you can continue shopping."),
                       print("All browser resources and connections have been preserved for your use.")>>
                ELSE <<print("Task complete. Your items remain in the cart on the website.")>>)
            \o cleanup(a),
          exc |-> ""]
    ELSE IF run_catches(outcome)
    THEN [events |->
            <<[e |-> "print", m |-> "Error during execution", x |-> outcome],
              print("Browser window is still available for your use.")>>
            \o cleanup(a),
          exc |-> ""]
    ELSE [events |-> <<>>, exc |-> outcome]

\* the try/except around `await agent.run()` in run_from_json and
\* run_interactive: what the caller does after WebCartAgent.run ended with
\* exc, and the exception that leaves the caller
after_run(exc) ==
    IF exc = "Exception"
    THEN [events |->
            <<[e |-> "print", m |-> "Error during execution", x |-> exc,
               by |-> "caller"],
              [e |-> "print", m |-> "Browser window is still available for your use.",
               by |-> "caller"]>>,
          exc |-> ""]
    ELSE [events |-> <<>>, exc |-> exc]

(***************************************************************************)
(* web_cart_agent.py as a script: main, run_from_json, run_interactive     *)
(***************************************************************************)
NoLocals ==
    [json_file |-> <<>>, website |-> <<>>, items |-> <<>>, item |-> <<>>,
     options |-> <<>>, entries |-> <<>>, another |-> <<>>]

\* os.path.exists
exists(p) == isfile(p) \/ isdir(p)

\* a plausible slip in main: any argument that is no usable JSON file falls
\* back to the prompts
mode_fallback(arg) ==
    IF arg.t = "some" /\ exists(arg.v) /\ endswith(arg.v, ".json")
    THEN "run_from_json"
    ELSE "run_interactive"

\* the branch web_cart_agent.main takes on sys.argv[1]
mode(arg) ==
    IF arg.t = "some"
    THEN IF exists(arg.v) /\ endswith(arg.v, ".json")
         THEN "run_from_json"
         ELSE "error"
    ELSE "run_interactive"

\* web_cart_agent.main: JSON mode for an existing .json argument, an error
\* message for any other argument, interactive mode without argument
main ==
    /\ prog = "web_cart_agent"
    /\ pc = "main"
    /\ LET m == mode(argv)
       IN  IF m = "run_from_json"
           THEN /\ events' = events
                       \o <<print("Web Cart Agent"),
                            print("Running with configuration from"),
                            [e |-> "run_from_json"]>>
                /\ loc' = [loc EXCEPT !.json_file = argv.v]
                /\ pc' = "run_from_json"
           ELSE IF m = "error"
           THEN /\ events' = events
                       \o <<print("Web Cart Agent"),
                            print("Error: Config file not found or not a JSON file")>>
                /\ loc' = loc
                /\ pc' = "exit"
           ELSE /\ events' = events
                       \o <<print("Web Cart Agent"), [e |-> "run_interactive"]>>
                /\ loc' = loc
                /\ pc' = "run_interactive"
    /\ UNCHANGED <<prog, argv, env, fsys, agent, raised, file, inv>>

\* a plausible slip in run_from_json: absent optional keys default to None
\* and True instead of {} and False
json_args_other_defaults(config) ==
    [website |-> Get(config, "website", <<>>),
     items |-> Get(config, "items", <<>>),
     credentials |-> IF HasKey(config, "credentials")
                     THEN Some(Get(config, "credentials", <<>>))
                     ELSE None,
     headless |-> Get(config, "headless", TRUE),
     browser_instance_path |->
        IF HasKey(config, "browser_instance_path")
        THEN Some(Get(config, "browser_instance_path", <<>>))
        ELSE None]

\* the keyword arguments run_from_json passes to WebCartAgent
json_args(config) ==
    [website |-> Get(config, "website", <<>>),
     items |-> Get(config, "items", <<>>),
     credentials |-> Some(Get(config, "credentials", <<>>)),
     headless |-> Get(config, "headless", FALSE),
     browser_instance_path |->
        IF HasKey(config, "browser_instance_path")
        THEN Some(Get(config, "browser_instance_path", <<>>))
        ELSE None]

\* the keys whose absence makes run_from_json raise KeyError: those it
\* reads by subscript
json_required == {"website"}

\* a plausible variant of run_from_json / run_interactive: the constructor
\* call stands inside the try, so its exception is caught and printed
Construct_catches(args) ==
    LET a == WebCartAgent(args.website, args.items, args.credentials,
                          args.headless, args.browser_instance_path)
        c == after_run("Exception")
    IN  /\ IF a.ok
           THEN /\ events' = Append(events, [e |-> "WebCartAgent",
                                             args |-> args, ok |-> a.ok])
                /\ agent' = a
                /\ raised' = raised
                /\ pc' = "agent_run"
           ELSE /\ events' = Append(events, [e |-> "WebCartAgent",
                                             args |-> args, ok |-> a.ok])
                              \o c.events
                /\ agent' = agent
                /\ raised' = c.exc
                /\ pc' = "exit"

\* construct a WebCartAgent from args: the constructor call is recorded,
\* then either the agent exists and its run is awaited, or the
\* constructor's exception leaves the caller
Construct(args) ==
    LET a == WebCartAgent(args.website, args.items, args.credentials,
                          args.headless, args.browser_instance_path)
    IN  /\ events' = Append(events, [e |-> "WebCartAgent", args |-> args,
                                     ok |-> a.ok])
        /\ IF a.ok
           THEN /\ agent' = a
                /\ raised' = raised
                /\ pc' = "agent_run"
           ELSE /\ agent' = agent
                /\ raised' = a.exc
                /\ pc' = "exit"

\* run_from_json: load the configuration, construct the agent
run_from_json ==
    /\ prog = "web_cart_agent"
    /\ pc = "run_from_json"
    /\ LET config == fsys.json[loc.json_file]
       IN  IF \E k \in json_required : ~HasKey(config, k)
           THEN /\ raised' = "KeyError"
                /\ pc' = "exit"
                /\ UNCHANGED <<events, agent>>
           ELSE Construct(json_args(config))
    /\ UNCHANGED <<prog, argv, env, fsys, loc, file, inv>>

\* `await agent.run()` inside the try of run_from_json / run_interactive:
\* WebCartAgent.run from start to end, then the caller's except clause
agent_run ==
    /\ prog = "web_cart_agent"
    /\ pc = "agent_run"
    /\ \E outcome \in AgentOutcomes :
         LET r == run_end(agent, outcome)
             c == after_run(r.exc)
         IN  /\ events' = events \o run_begin(agent)
                            \o <<[e |-> "agent.run ended", outcome |-> outcome]>>
                            \o r.events
                            \o <<[e |-> "WebCartAgent.run ended", exc |-> r.exc]>>
                            \o c.events
             /\ raised' = c.exc
    /\ pc' = "exit"
    /\ UNCHANGED <<prog, argv, env, fsys, loc, agent, file, inv>>

(***************************************************************************)
(* The files and the environment the scripts are started with              *)
(***************************************************************************)
JsonPath == <<"cart", ".json">>

TxtPath == <<"cart", ".txt">>

MissingJsonPath == <<"missing", ".json">>

ChromiumPath == <<"/", "usr", "/", "bin", "/", "chromium">>

BraveApp == <<"/", "Applications", "/", "Brave", " ", "Browser", ".app">>

BraveExe == BraveApp \o <<"/", "Contents/MacOS/", "Brave", " ", "Browser">>

MissingPath == <<"/", "opt", "/", "nowhere">>

BrowserPathInputs == {<<>>, ChromiumPath, MissingPath}

\* a file system holding the configuration file JsonPath with content config
FS(config) ==
    [files |-> {ChromiumPath, BraveExe, TxtPath, JsonPath},
     dirs |-> {BraveApp},
     json |-> (JsonPath :> config)]

\* the environment holding the variables of the <<name, value>> pairs S
EnvOf(S) == [k \in {p[1] : p \in S} |-> (CHOOSE p \in S : p[1] = k)[2]]

\* each variable of a choice is unset or has one of the listed values
Choice(name, values) == {{}} \cup {{<<name, v>>} : v \in values}

\* bounds of the interactive entry loops
MaxItems == 2

MaxOptions == 1

\* what the operator may type at the prompts
WebsiteInputs == {<<"amazon", ".", "com">>, <<"etsy", ".", "com">>}

NameInputs == {<<>>, <<"mouse">>}

DescriptionInputs == {<<>>, <<"wireless">>}

QuantityInputs == {<<>>, <<"1", "0">>, <<" ">>, <<"two">>}

OptionNameInputs == {<<>>, <<"color">>}

OptionValueInputs == {<<"black">>}

YesNoInputs == {<<"y">>, <<"Y">>, <<"n">>, <<>>}

UsernameInputs == {<<"alice">>}

PasswordInputs == {<<"secret">>}

input(p, a) == [e |-> "input", p |-> p, a |-> a]

\* a plausible slip in run_interactive: the check for an empty item list is
\* missing
AfterItems_always_goes_on(items) ==
    /\ events' = events
    /\ pc' = "ri_finish"

\* run_interactive after the item loop: without items it prints a notice
\* and returns, otherwise it goes on to the credentials prompts
AfterItems(items) ==
    IF items = <<>>
    THEN /\ events' = Append(events, print("No items specified. Exiting."))
         /\ pc' = "exit"
    ELSE /\ events' = events
         /\ pc' = "ri_finish"

\* run_interactive: the website prompt
ri_start ==
    /\ prog = "web_cart_agent"
    /\ pc = "run_interactive"
    /\ \E website \in WebsiteInputs :
         loc' = [loc EXCEPT !.website = website, !.items = <<>>]
    /\ pc' = "ri_item"
    /\ UNCHANGED <<prog, argv, env, fsys, agent, events, raised, file, inv>>

\* run_interactive: the head of the item loop: name, description, quantity.
\* loc.entries keeps the quantity answer of the item being entered.
ri_item ==
    /\ prog = "web_cart_agent"
    /\ pc = "ri_item"
    /\ \E item_name \in NameInputs, description \in DescriptionInputs,
          quantity \in QuantityInputs :
         IF item_name = <<>>
         THEN /\ AfterItems(loc.items)
              /\ UNCHANGED <<loc, raised>>
         ELSE LET item0 == <<<<"name", item_name>>>>
                  item1 == IF description # <<>>
                           THEN Put(item0, "description", description)
                           ELSE item0
                  q == int(quantity)
              IN  IF quantity # <<>> /\ ~q.ok
                  THEN /\ raised' = q.exc
                       /\ pc' = "exit"
                       /\ UNCHANGED <<loc, events>>
                  ELSE /\ loc' = [loc EXCEPT
                                    !.item = IF quantity # <<>>
                                             THEN Put(item1, "quantity", q.v)
                                             ELSE item1,
                                    !.options = <<>>,
                                    !.entries = Append(@, quantity)]
                       /\ pc' = "ri_option"
                       /\ UNCHANGED <<events, raised>>
    /\ UNCHANGED <<prog, argv, env, fsys, agent, file, inv>>

\* run_interactive: the options loop of one item; a blank option name ends
\* it, the item is appended and "Add another item?" is asked; loc.another
\* keeps the answer
ri_option ==
    /\ prog = "web_cart_agent"
    /\ pc = "ri_option"
    /\ \E option_name \in OptionNameInputs, option_value \in OptionValueInputs,
          another \in YesNoInputs :
         IF option_name = <<>>
         THEN LET item == IF loc.options # <<>>
                          THEN Put(loc.item, "options", loc.options)
                          ELSE loc.item
                  items == Append(loc.items, item)
              IN  /\ loc' = [loc EXCEPT !.items = items, !.item = <<>>,
                                        !.options = <<>>,
                                        !.another = another]
                  /\ IF lower(another) # <<"y">>
                     THEN AfterItems(items)
                     ELSE /\ Len(items) < MaxItems
                          /\ pc' = "ri_item"
                          /\ events' = events
         ELSE /\ Len(loc.options) < MaxOptions
              /\ loc' = [loc EXCEPT
                           !.options = Put(@, option_name, option_value)]
              /\ UNCHANGED <<pc, events>>
    /\ UNCHANGED <<prog, argv, env, fsys, agent, raised, file, inv>>

\* run_interactive after the items: credentials, browser path, and the
\* construction of the agent
ri_finish ==
    /\ prog = "web_cart_agent"
    /\ pc = "ri_finish"
    /\ \E use \in YesNoInputs, username \in UsernameInputs,
          password \in PasswordInputs, browser_path \in BrowserPathInputs :
         Construct([website |-> loc.website,
                    items |-> loc.items,
                    credentials |->
                       Some(IF lower(use) = <<"y">>
                            THEN <<<<"username", username>>,
                                   <<"password", password>>>>
                            ELSE <<>>),
                    headless |-> FALSE,
                    browser_instance_path |->
                       IF browser_path # <<>> THEN Some(browser_path)
                       ELSE None])
    /\ UNCHANGED <<prog, argv, env, fsys, loc, file, inv>>

(***************************************************************************)
(* Initial states of web_cart_agent.py                                     *)
(***************************************************************************)
Mouse == <<<<"name", <<"mouse">>>>>>

Cable == <<<<"name", <<"cable">>>>, <<"description", <<"usb">>>>,
           <<"quantity", 3>>, <<"options", <<<<<<"color">>, <<"white">>>>>>>>>>

BothCredentials ==
    <<<<"username", <<"alice">>>>, <<"password", <<"secret">>>>>>

\* a JSON object with the keys that are given (Some)
ConfigOf(website, items, credentials, headless, browser_instance_path) ==
    (IF website.t = "some" THEN <<<<"website", website.v>>>> ELSE <<>>)
    \o (IF items.t = "some" THEN <<<<"items", items.v>>>> ELSE <<>>)
    \o (IF credentials.t = "some"
        THEN <<<<"credentials", credentials.v>>>> ELSE <<>>)
    \o (IF headless.t = "some" THEN <<<<"headless", headless.v>>>> ELSE <<>>)
    \o (IF browser_instance_path.t = "some"
        THEN <<<<"browser_instance_path", browser_instance_path.v>>>>
        ELSE <<>>)

Opt(S) == {None} \cup {Some(x) : x \in S}

\* the configuration files the script is started on
Configs ==
    {ConfigOf(w, i, c, h, b) :
        w \in Opt({<<"amazon", ".", "com">>, <<"etsy", ".", "com">>}),
        i \in Opt({<<>>, <<Mouse>>, <<Mouse, Cable>>}),
        c \in Opt({<<>>, BothCredentials}),
        h \in Opt(BOOLEAN),
        b \in Opt({ChromiumPath})}

DefaultConfig ==
    ConfigOf(Some(<<"amazon", ".", "com">>), Some(<<Mouse>>), None, None, None)

\* the environments the scripts are started in
ScriptEnvs ==
    {EnvOf(w \cup h) :
        w \in Choice(<<"BROWSER_WIDTH">>, {<<"1", "0", "2", "4">>, <<"wide">>}),
        h \in Choice(<<"BROWSER_HEADLESS">>, {<<"false">>})}

\* the environments the prompts are answered in
InteractiveEnvs ==
    {EnvOf({}), EnvOf({<<<<"BROWSER_WIDTH">>, <<"wide">>>>})}

InitCommon ==
    /\ pc = "main"
    /\ loc = NoLocals
    /\ agent = NoAgent
    /\ events = <<>>
    /\ raised = ""
    /\ file = None
    /\ inv = <<>>

InitWeb ==
    /\ prog = "web_cart_agent"
    /\ InitCommon
    /\ \/ /\ argv = None
          /\ env \in InteractiveEnvs
          /\ fsys = FS(DefaultConfig)
       \/ /\ argv \in {Some(TxtPath), Some(MissingJsonPath)}
          /\ env \in ScriptEnvs
          /\ fsys = FS(DefaultConfig)
       \/ /\ argv = Some(JsonPath)
          /\ env \in ScriptEnvs
          /\ fsys \in {FS(c) : c \in Configs}

NextWeb ==
    \/ main
    \/ run_from_json
    \/ agent_run
    \/ ri_start
    \/ ri_item
    \/ ri_option
    \/ ri_finish

SpecWeb == InitWeb /\ [][NextWeb]_vars

(***************************************************************************)
(* Properties of web_cart_agent.py as a script                             *)
(***************************************************************************)
\* the positions of the events named ev
At(ev) == {i \in DOMAIN events : events[i].e = ev}

Count(ev) == Cardinality(At(ev))

\* the script ran run_from_json on the file JsonPath and is over
JsonModeOver ==
    /\ prog = "web_cart_agent"
    /\ pc = "exit"
    /\ Count("run_from_json") = 1

TheConfig == fsys.json[JsonPath]

\* C1 (as claimed): run_from_json rejects every configuration that lacks
\* `website` or lacks `items`: an error is raised and no WebCartAgent is
\* constructed or run.
C1_RejectsMissingRequiredKey ==
    (JsonModeOver /\ (~HasKey(TheConfig, "website") \/ ~HasKey(TheConfig, "items")))
    => /\ raised # ""
       /\ Count("WebCartAgent") = 0
       /\ Count("WebCartAgent.run") = 0

\* the arguments the claim C2 expects for a configuration: the given values,
\* {} for absent credentials, False for absent headless, None for an absent
\* browser path
C2_Expected(config) ==
    [website |-> Get(config, "website", <<>>),
     items |-> Get(config, "items", <<>>),
     credentials |-> IF HasKey(config, "credentials")
                     THEN Some(Get(config, "credentials", <<>>))
                     ELSE Some(<<>>),
     headless |-> IF HasKey(config, "headless")
                  THEN Get(config, "headless", FALSE)
                  ELSE FALSE,
     browser_instance_path |->
        IF HasKey(config, "browser_instance_path")
        THEN Some(Get(config, "browser_instance_path", <<>>))
        ELSE None]

C2_Case ==
    JsonModeOver /\ HasKey(TheConfig, "website") /\ HasKey(TheConfig, "items")

\* C2 (as claimed): for every configuration with `website` and `items`,
\* run_from_json constructs exactly one WebCartAgent and runs it exactly
\* once, with the defaults for the absent optional keys.
C2_ConstructsAndRunsOnce ==
    C2_Case
    => /\ Count("WebCartAgent") = 1
       /\ Count("WebCartAgent.run") = 1
       /\ \A i \in At("WebCartAgent") : events[i].args = C2_Expected(TheConfig)

\* C2 (amended): for every configuration with `website` and `items`,
\* run_from_json calls the WebCartAgent constructor exactly once, with the
\* given values and the defaults {} / False / None for absent credentials,
\* headless and browser_instance_path; the agent is run exactly once when
\* the constructor returns, and not at all when the constructor raises,
\* whose exception then leaves run_from_json.
C2_ConstructsOnceRunsIfConstructed ==
    C2_Case
    => /\ Count("WebCartAgent") = 1
       /\ \A i \in At("WebCartAgent") :
            /\ events[i].args = C2_Expected(TheConfig)
            /\ Count("WebCartAgent.run") = (IF events[i].ok THEN 1 ELSE 0)
            /\ ~events[i].ok => raised = "ValueError"

\* a configuration with only the required keys was constructed and run once
C2_Witness ==
    /\ C2_Case
    /\ Keys(TheConfig) = {"website", "items"}
    /\ Count("WebCartAgent") = 1
    /\ Count("WebCartAgent.run") = 1

\* C5: every Exception raised by the agent call inside WebCartAgent.run is
\* caught there: its message is printed, run returns normally, cleanup is
\* invoked exactly once afterwards, and the except clauses of run_from_json
\* and run_interactive are never entered.
C5_AgentExceptionCaughtInRun ==
    /\ \A i \in At("agent.run ended") :
         events[i].outcome = "Exception"
         => /\ events[i + 1].e = "print"
            /\ events[i + 1].m = "Error during execution"
            /\ Cardinality({j \in At("cleanup") : j > i}) = 1
            /\ \E j \in At("WebCartAgent.run ended") :
                 j > i /\ events[j].exc = ""
            /\ raised = ""
    /\ \A i \in DOMAIN events : "by" \notin DOMAIN events[i]

\* the agent call raised an Exception and the script is over
C5_Witness ==
    /\ pc = "exit"
    /\ \E i \in At("agent.run ended") : events[i].outcome = "Exception"
    /\ Count("cleanup") = 1

\* C6 (as claimed): every invocation of main runs exactly one of the two
\* modes, JSON mode for a JSON file argument and otherwise interactive mode.
C6_ExactlyOneMode ==
    (prog = "web_cart_agent" /\ pc # "main")
    => Count("run_from_json") + Count("run_interactive") = 1

\* C6 (amended): every invocation of main runs at most one mode: JSON mode
\* exactly when the argument is an existing path ending in .json,
\* interactive mode exactly when there is no argument; for any other
\* argument it prints an error and runs neither.
C6_ModeByArgument ==
    (prog = "web_cart_agent" /\ pc # "main")
    => LET usable == /\ argv.t = "some"
                     /\ argv.v \in fsys.files \cup fsys.dirs
                     /\ argv.v[Len(argv.v)] = ".json"
       IN  /\ Count("run_from_json") = (IF usable THEN 1 ELSE 0)
           /\ Count("run_interactive") = (IF argv = None THEN 1 ELSE 0)
           /\ (argv # None /\ ~usable)
              => /\ pc = "exit"
                 /\ \E i \in At("print") :
                      events[i].m = "Error: Config file not found or not a JSON file"

\* main was given an argument that is no existing .json file and is over
C6_Witness ==
    /\ prog = "web_cart_agent"
    /\ pc = "exit"
    /\ argv = Some(TxtPath)
    /\ Count("run_from_json") + Count("run_interactive") = 0

(***************************************************************************)
(* WebCartAgent.__init__ on its own: the constructor applied to arguments, *)
(* environments and file systems drawn from bounded sets                   *)
(***************************************************************************)
KnownSiteWords ==
    {<<"amazon", "Amazon", "AMAZON">>, <<"walmart", "Walmart", "WALMART">>,
     <<"target", "Target", "TARGET">>, <<"bestbuy", "BestBuy", "BESTBUY">>,
     <<"ebay", "eBay", "EBAY">>, <<"newegg", "Newegg", "NEWEGG">>,
     <<"flipkart", "Flipkart", "FLIPKART">>}

\* the ways a site is written: s.com in three cases, www.s.com,
\* https://s.com, and s alone
Spellings(w) ==
    {<<w[1], ".", "com">>, <<w[2], ".", "com">>, <<w[3], ".", "com">>,
     <<"www", ".", w[1], ".", "com">>, <<"https://", w[1], ".", "com">>,
     <<w[1]>>}

CtorWebsites ==
    UNION {Spellings(w) : w \in KnownSiteWords}
    \cup Spellings(<<"etsy", "Etsy", "ETSY">>)
    \cup {<<>>, <<"shop", ".", "amazon", ".", "com">>}

CtorCredentials ==
    {None, Some(<<>>), Some(BothCredentials),
     Some(<<<<"username", <<"alice">>>>>>),
     Some(<<<<"password", <<"secret">>>>>>),
     Some(<<<<"username", <<>>>>, <<"password", <<"secret">>>>>>)}

CredentialEnvs ==
    {EnvOf(u \cup p) :
        u \in Choice(<<"AMAZON", "_USERNAME">>, {<<>>, <<"env_user">>}),
        p \in Choice(<<"AMAZON", "_PASSWORD">>, {<<>>, <<"env_pass">>})}

ToolApp == <<"/", "Applications", "/", "Tool", ".app">>

AppsDir == <<"/", "Applications">>

CtorPaths ==
    {None, Some(<<>>), Some(ChromiumPath), Some(BraveApp), Some(ToolApp),
     Some(AppsDir), Some(MissingPath)}

BrowserEnvs ==
    {EnvOf(h \cup w \cup g \cup b) :
        h \in Choice(<<"BROWSER_HEADLESS">>,
                     {<<"true">>, <<"True">>, <<"false">>, <<"1">>}),
        w \in Choice(<<"BROWSER_WIDTH">>, {<<"1", "0", "2", "4">>, <<"wide">>}),
        g \in Choice(<<"BROWSER_HEIGHT">>, {<<"7", "6", "8">>, <<"tall">>}),
        b \in Choice(<<"BROWSER_INSTANCE_PATH">>, {ChromiumPath})}

CtorFS ==
    [files |-> {ChromiumPath, BraveExe},
     dirs |-> {BraveApp, ToolApp, AppsDir},
     json |-> <<>>]

\* bound of the item lists the constructor is called with
MaxCtorItems == 3

\* an item with a description and options that are there and empty and a
\* quantity of zero
Stand == <<<<"name", <<"stand">>>>, <<"description", <<>>>>,
           <<"quantity", 0>>, <<"options", <<>>>>>>

\* an item without name, with two options and no quantity
Nameless == <<<<"description", <<"wireless">>>>,
              <<"options", <<<<<<"color">>, <<"black">>>>,
                             <<<<"size">>, <<"xl">>>>>>>>>>

\* the item lists of the constructor calls: up to MaxCtorItems items, with
\* repetitions, each with or without the optional keys
CtorItemLists ==
    UNION {[1..n -> {Mouse, Cable, Stand, Nameless}] : n \in 0..MaxCtorItems}

CtorArgs(w, c, h, b) ==
    [website |-> w, items |-> <<Mouse, Cable>>, credentials |-> c,
     headless |-> h, browser_instance_path |-> b]

InitCtor ==
    /\ prog = "WebCartAgent"
    /\ pc = "call"
    /\ argv = None
    /\ fsys = CtorFS
    /\ agent = NoAgent
    /\ events = <<>>
    /\ raised = ""
    /\ file = None
    /\ inv = <<>>
    /\ \/ /\ env \in CredentialEnvs
          /\ loc \in {CtorArgs(w, c, FALSE, None) :
                        w \in CtorWebsites, c \in CtorCredentials}
       \/ /\ env \in BrowserEnvs
          /\ loc \in {CtorArgs(<<"amazon", ".", "com">>, Some(<<>>), h, b) :
                        h \in BOOLEAN, b \in CtorPaths}
       \/ /\ env = EnvOf({})
          /\ loc \in {[CtorArgs(<<"amazon", ".", "com">>, Some(<<>>), FALSE, None)
                          EXCEPT !.items = items] : items \in CtorItemLists}

\* WebCartAgent(**loc)
new_WebCartAgent ==
    /\ prog = "WebCartAgent"
    /\ pc = "call"
    /\ Construct(loc)
    /\ UNCHANGED <<prog, argv, env, fsys, loc, file, inv>>

SpecCtor == InitCtor /\ [][new_WebCartAgent]_vars

Constructed == prog = "WebCartAgent" /\ pc # "call" /\ agent.ok

\* the text before the first "." of a website, by its definition
C3_FirstLabel(w) ==
    LET k == CHOOSE n \in 0..Len(w) :
                /\ \A j \in 1..n : w[j] # "."
                /\ (n = Len(w) \/ w[n + 1] = ".")
    IN  SubSeq(w, 1, k)

KnownSites ==
    {"amazon", "walmart", "target", "bestbuy", "ebay", "newegg", "flipkart"}

\* C3: _create_task appends exactly one website-specific instruction
\* block: the block of the known site that the site name (the lower-cased
\* text before the first ".") names, the generic block for every other
\* website.
C3_OneSiteBlock ==
    Constructed
    => LET task == agent.task
           blocks == {i \in DOMAIN task : task[i].part = "site_specific"}
           label == C3_FirstLabel(loc.website)
           known == Len(label) = 1 /\ LowerTok(label[1]) \in KnownSites
       IN  /\ blocks = {Len(task)}
           /\ known => task[Len(task)].block = LowerTok(label[1])
           /\ ~known => task[Len(task)].block = "generic"

\* flipkart.com got the flipkart block and nothing else
C3_Witness ==
    /\ Constructed
    /\ loc.website = <<"flipkart", ".", "com">>
    /\ agent.task[Len(agent.task)].block = "flipkart"

\* C8 (as claimed): for a construction without custom browser, with
\* BROWSER_HEADLESS unset the browser's headless flag is the `headless`
\* argument, and a `headless` argument of true makes the browser headless
\* whatever BROWSER_HEADLESS holds.
C8_HeadlessEnvIsOnlyDefault ==
    (Constructed /\ ~agent.custom_browser_used)
    => /\ <<"BROWSER_HEADLESS">> \notin DOMAIN env
          => agent.browser.config.headless = loc.headless
       /\ loc.headless => agent.browser.config.headless

\* C9 (as claimed): each of username and password that the configuration
\* does not supply is taken from <SITE>_USERNAME / <SITE>_PASSWORD when
\* that is set (to a non-empty value); a supplied value is never replaced;
\* a field supplied by neither is the placeholder.
C9_EnvCredentialsPerField ==
    Constructed
    => LET given == IF loc.credentials.t = "some" THEN loc.credentials.v
                    ELSE <<>>
           site == upper(C3_FirstLabel(loc.website))
           key(f) == site \o <<IF f = "username" THEN "_USERNAME"
                               ELSE "_PASSWORD">>
           set(f) == key(f) \in DOMAIN env /\ env[key(f)] # <<>>
       IN  \A f \in {"username", "password"} :
              Get(agent.credentials, f, <<"missing">>) =
                 IF HasKey(given, f) THEN Get(given, f, <<>>)
                 ELSE IF set(f) THEN env[key(f)]
                 ELSE ASK_USER

\* C9 (amended): the per-site variables are consulted only when the
\* configuration supplies no credentials at all (none, or an empty dict):
\* then each of username and password that <SITE>_USERNAME /
\* <SITE>_PASSWORD sets to a non-empty value takes that value.  When the
\* configuration supplies a non-empty credentials dict the environment is
\* not consulted.  A supplied value is never replaced, and a field supplied
\* by neither is the placeholder.
C9_EnvCredentialsOnlyWhenNoneGiven ==
    Constructed
    => LET given == IF loc.credentials.t = "some" THEN loc.credentials.v
                    ELSE <<>>
           site == upper(C3_FirstLabel(loc.website))
           key(f) == site \o <<IF f = "username" THEN "_USERNAME"
                               ELSE "_PASSWORD">>
           set(f) == key(f) \in DOMAIN env /\ env[key(f)] # <<>>
       IN  \A f \in {"username", "password"} :
              Get(agent.credentials, f, <<"missing">>) =
                 IF HasKey(given, f) THEN Get(given, f, <<>>)
                 ELSE IF given = <<>> /\ set(f) THEN env[key(f)]
                 ELSE ASK_USER

\* only a username was supplied, AMAZON_PASSWORD is set, and the password is
\* the placeholder
C9_Witness ==
    /\ Constructed
    /\ loc.credentials = Some(<<<<"username", <<"alice">>>>>>)
    /\ loc.website = <<"amazon", ".", "com">>
    /\ <<"AMAZON", "_PASSWORD">> \in DOMAIN env
    /\ env[<<"AMAZON", "_PASSWORD">>] = <<"env_pass">>
    /\ Get(agent.credentials, "password", <<>>) = ASK_USER
    /\ Get(agent.credentials, "username", <<>>) = <<"alice">>

\* C10 (as claimed): the browser configuration built in __init__ carries
\* the width and height read from BROWSER_WIDTH and BROWSER_HEIGHT, or 1280
\* by 800 when they are unset.
C10_GeometryFromEnvironment ==
    Constructed
    => LET config == agent.browser.config
       IN  /\ "width" \in DOMAIN config
           /\ "height" \in DOMAIN config
           /\ config.width = IF <<"BROWSER_WIDTH">> \in DOMAIN env
                             THEN int(env[<<"BROWSER_WIDTH">>]).v
                             ELSE 1280
           /\ config.height = IF <<"BROWSER_HEIGHT">> \in DOMAIN env
                              THEN int(env[<<"BROWSER_HEIGHT">>]).v
                              ELSE 800

(***************************************************************************)
(* ecommerce_cart_agent.py: one product, prompts, run, close               *)
(***************************************************************************)
UrlInputs == {<<"https://", "amazon", ".", "com", "/", "dp", "/", "B01">>}

SiteInputs == {<<"amazon">>, <<"Etsy">>}

\* the login-wait script both EcommerceCartAgent._create_task embed
js_login_code == [part |-> "js_login_code"]

\* ecommerce_cart_agent.EcommerceCartAgent.__init__ with _create_task
basic_EcommerceCartAgent(product_url, ecommerce_site, credentials, quantity) ==
    [ok |-> TRUE,
     product_url |-> product_url,
     ecommerce_site |-> lower(ecommerce_site),
     credentials |-> IF Truthy(credentials) THEN credentials.v ELSE <<>>,
     quantity |-> quantity,
     browser |-> [config |-> BrowserConfig(FALSE, None), closed |-> FALSE],
     task |-> <<[part |-> "product_description",
                 product_url |-> product_url,
                 quantity |-> quantity],
                js_login_code>>]

\* a plausible slip in the quantity prompts: the fallback for a blank
\* answer is 0
quantity_or_default_zero(quantity) ==
    IF quantity # <<>> THEN int(quantity) ELSE [ok |-> TRUE, v |-> 0]

\* `int(quantity) if quantity else 1` of ecommerce_cart_agent.main and
\* ecommerce_cart_agent_advanced.run_interactive
quantity_or_default(quantity) ==
    IF quantity # <<>> THEN int(quantity) ELSE [ok |-> TRUE, v |-> 1]

\* ecommerce_cart_agent.main up to the construction of the agent.
\* loc.entries keeps the quantity answer.
basic_main ==
    /\ prog = "ecommerce_cart_agent"
    /\ pc = "main"
    /\ \E product_url \in UrlInputs, ecommerce_site \in SiteInputs,
          quantity \in QuantityInputs :
         LET q == quantity_or_default(quantity)
         IN  IF ~q.ok
             THEN /\ raised' = q.exc
                  /\ pc' = "exit"
                  /\ UNCHANGED <<loc, agent>>
             ELSE /\ agent' = basic_EcommerceCartAgent(product_url,
                                 ecommerce_site, None, q.v)
                  /\ loc' = [loc EXCEPT !.website = ecommerce_site,
                                        !.entries = <<quantity>>]
                  /\ pc' = "agent_run"
                  /\ raised' = raised
    /\ events' = events
    /\ UNCHANGED <<prog, argv, env, fsys, file, inv>>

\* a plausible slip in EcommerceCartAgent.run: the prompt and the close sit
\* at the end of the try and not in a finally clause
EcommerceCartAgent_run_without_finally(n, outcome) ==
    [events |->
        <<[e |-> "EcommerceCartAgent.run"], print("Starting cart agent"),
          [e |-> "agent.run"],
          [e |-> "agent.run ended", outcome |-> outcome]>>
        \o (IF outcome = "returns"
            THEN <<print("Task completed successfully."),
                   input("Press Enter to close the browser...", <<>>),
                   [e |-> "browser.close"]>>
            ELSE IF outcome = "Exception"
            THEN <<[e |-> "print", m |-> "Error during execution",
                    x |-> outcome]>>
            ELSE <<>>),
     exc |-> IF outcome \in {"returns", "Exception"} THEN "" ELSE outcome]

\* EcommerceCartAgent.run of both scripts: the agent call, its message, and
\* in the finally clause the Enter prompt and browser.close(); n is the
\* number of items announced (0: not announced)
EcommerceCartAgent_run(n, outcome) ==
    [events |->
        <<[e |-> "EcommerceCartAgent.run"], print("Starting cart agent")>>
        \o (IF n > 0
            THEN <<[e |-> "print", m |-> "Adding item(s) to cart", n |-> n]>>
            ELSE <<>>)
        \o <<[e |-> "agent.run"],
             [e |-> "agent.run ended", outcome |-> outcome]>>
        \o (IF outcome = "returns"
            THEN <<print("Task completed successfully.")>>
            ELSE IF outcome = "Exception"
            THEN <<[e |-> "print", m |-> "Error during execution",
                    x |-> outcome]>>
            ELSE <<>>)
        \o <<input("Press Enter to close the browser...", <<>>),
             [e |-> "browser.close"]>>,
     exc |-> IF outcome \in {"returns", "Exception"} THEN "" ELSE outcome]

\* ecommerce_cart_agent.main: `await agent.run()`
basic_run ==
    /\ prog = "ecommerce_cart_agent"
    /\ pc = "agent_run"
    /\ \E outcome \in AgentOutcomes :
         LET r == EcommerceCartAgent_run(0, outcome)
         IN  /\ events' = events \o r.events
             /\ raised' = r.exc
    /\ agent' = [agent EXCEPT !.browser.closed = TRUE]
    /\ pc' = "exit"
    /\ UNCHANGED <<prog, argv, env, fsys, loc, file, inv>>

InitBasic ==
    /\ prog = "ecommerce_cart_agent"
    /\ InitCommon
    /\ argv = None
    /\ env = EnvOf({})
    /\ fsys = FS(DefaultConfig)

NextBasic == basic_main \/ basic_run

(***************************************************************************)
(* ecommerce_cart_agent_advanced.py started without argument:              *)
(* run_interactive, EcommerceCartAgent, run                                *)
(***************************************************************************)
\* ecommerce_cart_agent_advanced.EcommerceCartAgent._get_credentials
adv_get_credentials(ecommerce_site, provided_credentials) ==
    LET credentials == IF Truthy(provided_credentials)
                       THEN provided_credentials.v
                       ELSE <<>>
        site_upper == upper(ecommerce_site)
        username == os_getenv0(site_upper \o <<"_USERNAME">>)
        password == os_getenv0(site_upper \o <<"_PASSWORD">>)
        withUser == IF Truthy(username)
                    THEN Put(credentials, "username", username.v)
                    ELSE credentials
        withBoth == IF Truthy(password)
                    THEN Put(withUser, "password", password.v)
                    ELSE withUser
        fromEnv == IF credentials = <<>> THEN withBoth ELSE credentials
        c1 == IF ~HasKey(fromEnv, "username")
              THEN Put(fromEnv, "username", ASK_USER)
              ELSE fromEnv
    IN  IF ~HasKey(c1, "password") THEN Put(c1, "password", ASK_USER) ELSE c1

\* ecommerce_cart_agent_advanced.EcommerceCartAgent.__init__ with
\* _create_task: the object, or the exception it raises
adv_EcommerceCartAgent(products, ecommerce_site, credentials, headless) ==
    LET site == lower(ecommerce_site)
        headless1 == lower(os_getenv(<<"BROWSER_HEADLESS">>, str(headless)))
                        = <<"true">>
        width == IF <<"BROWSER_WIDTH">> \in DOMAIN env
                 THEN int(env[<<"BROWSER_WIDTH">>])
                 ELSE [ok |-> TRUE, v |-> DefaultWidth]
        height == IF <<"BROWSER_HEIGHT">> \in DOMAIN env
                  THEN int(env[<<"BROWSER_HEIGHT">>])
                  ELSE [ok |-> TRUE, v |-> DefaultHeight]
    IN  IF ~width.ok \/ ~height.ok
        THEN [ok |-> FALSE, exc |-> "ValueError"]
        ELSE [ok |-> TRUE,
              products |-> products,
              ecommerce_site |-> site,
              credentials |-> adv_get_credentials(site, credentials),
              browser |-> [config |-> BrowserConfig(headless1, None),
                           closed |-> FALSE],
              task |-> <<[part |-> "items_description",
                          site |-> site,
                          lines |-> [i \in 1..Len(products) |->
                                        [url |-> products[i].url,
                                         quantity |-> products[i].quantity]]],
                         js_login_code>>]

\* Product(url, quantity, options)
Product(url, quantity, options) ==
    [url |-> url, quantity |-> quantity, options |-> options]

\* run_interactive after the product loop
adv_AfterProducts(products) ==
    IF products = <<>>
    THEN /\ events' = Append(events, print("No products specified. Exiting."))
         /\ pc' = "exit"
    ELSE /\ events' = events
         /\ pc' = "ri_finish"

\* ecommerce_cart_agent_advanced.main without argument, and the site prompt
\* of run_interactive
adv_main ==
    /\ prog = "ecommerce_cart_agent_advanced"
    /\ pc = "main"
    /\ mode(argv) = "run_interactive"
    /\ \E ecommerce_site \in SiteInputs :
         loc' = [loc EXCEPT !.website = ecommerce_site, !.items = <<>>]
    /\ events' = events
                 \o <<print("E-commerce Cart Agent - Advanced Version"),
                      [e |-> "run_interactive"]>>
    /\ pc' = "ri_item"
    /\ UNCHANGED <<prog, argv, env, fsys, agent, raised, file, inv>>

\* run_interactive: the head of the product loop: URL and quantity.
\* loc.entries keeps the quantity answer of the product being entered.
adv_product ==
    /\ prog = "ecommerce_cart_agent_advanced"
    /\ pc = "ri_item"
    /\ \E product_url \in {<<>>} \cup UrlInputs, quantity \in QuantityInputs :
         IF product_url = <<>>
         THEN /\ adv_AfterProducts(loc.items)
              /\ UNCHANGED <<loc, raised>>
         ELSE LET q == quantity_or_default(quantity)
              IN  IF ~q.ok
                  THEN /\ raised' = q.exc
                       /\ pc' = "exit"
                       /\ UNCHANGED <<loc, events>>
                  ELSE /\ loc' = [loc EXCEPT
                                    !.item = Product(product_url, q.v, <<>>),
                                    !.options = <<>>,
                                    !.entries = Append(@, quantity)]
                       /\ pc' = "ri_option"
                       /\ UNCHANGED <<events, raised>>
    /\ UNCHANGED <<prog, argv, env, fsys, agent, file, inv>>

\* run_interactive: the options loop of one product; a blank option name
\* ends it, the product is appended and "Add another product?" is asked
adv_option ==
    /\ prog = "ecommerce_cart_agent_advanced"
    /\ pc = "ri_option"
    /\ \E option_name \in OptionNameInputs, option_value \in OptionValueInputs,
          another \in YesNoInputs :
         IF option_name = <<>>
         THEN LET products ==
                    Append(loc.items,
                           Product(loc.item.url, loc.item.quantity, loc.options))
              IN  /\ loc' = [loc EXCEPT !.items = products, !.item = <<>>,
                                        !.options = <<>>,
                                        !.another = another]
                  /\ IF lower(another) # <<"y">>
                     THEN adv_AfterProducts(products)
                     ELSE /\ Len(products) < MaxItems
                          /\ pc' = "ri_item"
                          /\ events' = events
         ELSE /\ Len(loc.options) < MaxOptions
              /\ loc' = [loc EXCEPT
                           !.options = Put(@, option_name, option_value)]
              /\ UNCHANGED <<pc, events>>
    /\ UNCHANGED <<prog, argv, env, fsys, agent, raised, file, inv>>

\* run_interactive after the products: credentials and the construction of
\* the agent, outside any try
adv_finish ==
    /\ prog = "ecommerce_cart_agent_advanced"
    /\ pc = "ri_finish"
    /\ \E use \in YesNoInputs, username \in UsernameInputs,
          password \in PasswordInputs :
         LET a == adv_EcommerceCartAgent(
                     loc.items, loc.website,
                     Some(IF lower(use) = <<"y">>
                          THEN <<<<"username", username>>,
                                 <<"password", password>>>>
                          ELSE <<>>),
                     FALSE)
         IN  /\ events' = Append(events, [e |-> "EcommerceCartAgent",
                                          ok |-> a.ok])
             /\ IF a.ok
                THEN /\ agent' = a
                     /\ raised' = raised
                     /\ pc' = "agent_run"
                ELSE /\ agent' = agent
                     /\ raised' = a.exc
                     /\ pc' = "exit"
    /\ UNCHANGED <<prog, argv, env, fsys, loc, file, inv>>

\* run_interactive: `await agent.run()`, outside any try
adv_run ==
    /\ prog = "ecommerce_cart_agent_advanced"
    /\ pc = "agent_run"
    /\ \E outcome \in AgentOutcomes :
         LET r == EcommerceCartAgent_run(Len(agent.products), outcome)
         IN  /\ events' = events \o r.events
             /\ raised' = r.exc
    /\ agent' = [agent EXCEPT !.browser.closed = TRUE]
    /\ pc' = "exit"
    /\ UNCHANGED <<prog, argv, env, fsys, loc, file, inv>>

InitAdvanced ==
    /\ prog = "ecommerce_cart_agent_advanced"
    /\ InitCommon
    /\ argv = None
    /\ env \in InteractiveEnvs
    /\ fsys = FS(DefaultConfig)

NextAdvanced ==
    \/ adv_main
    \/ adv_product
    \/ adv_option
    \/ adv_finish
    \/ adv_run

(***************************************************************************)
(* web_cart_ui.py: create_temp_config and the async generator              *)
(* run_cart_agent.  The event loop runs one coroutine at a time: an        *)
(* invocation runs without interruption from one suspension point (a       *)
(* yield, an await of a task that is not done) to the next.                *)
(***************************************************************************)
RECURSIVE ParseOptions(_, _)
\* create_temp_config: the loop over option_pairs, options the dict so far
ParseOptions(option_pairs, options) ==
    IF option_pairs = <<>> THEN options
    ELSE LET pair == Head(option_pairs)
             kv == split1(pair, ":")
         IN  IF contains(pair, ":")
             THEN ParseOptions(Tail(option_pairs),
                               Put(options, strip(kv[1]), strip(kv[2])))
             ELSE ParseOptions(Tail(option_pairs), options)

\* a plausible slip in create_temp_config: a quantity that is no number is
\* stored as 1
ParseLine_stores_default(line) ==
    LET parts == split(line, "|")
        item0 == <<<<"name", strip(parts[1])>>>>
        item1 == IF Len(parts) > 1 /\ strip(parts[2]) # <<>>
                 THEN Put(item0, "description", strip(parts[2]))
                 ELSE item0
        q == int(strip(parts[3]))
    IN  IF Len(parts) > 2 /\ strip(parts[3]) # <<>>
        THEN Put(item1, "quantity", IF q.ok THEN q.v ELSE 1)
        ELSE item1

\* create_temp_config: the item of one non-blank line
ParseLine(line) ==
    LET parts == split(line, "|")
        item0 == <<<<"name", strip(parts[1])>>>>
        item1 == IF Len(parts) > 1 /\ strip(parts[2]) # <<>>
                 THEN Put(item0, "description", strip(parts[2]))
                 ELSE item0
        q == int(strip(parts[3]))
        item2 == IF Len(parts) > 2 /\ strip(parts[3]) # <<>> /\ q.ok
                 THEN Put(item1, "quantity", q.v)
                 ELSE item1
        options == ParseOptions(split(strip(parts[4]), ","), <<>>)
    IN  IF Len(parts) > 3 /\ strip(parts[4]) # <<>> /\ options # <<>>
        THEN Put(item2, "options", options)
        ELSE item2

RECURSIVE ParseItems(_)
\* create_temp_config: the loop over the lines of the items text
ParseItems(lines) ==
    IF lines = <<>> THEN <<>>
    ELSE IF strip(Head(lines)) = <<>> THEN ParseItems(Tail(lines))
    ELSE <<ParseLine(Head(lines))>> \o ParseItems(Tail(lines))

\* a plausible slip in create_temp_config: the credentials are written
\* whenever they are given
create_temp_config_any_credentials(website, items_text, credentials, headless) ==
    LET items == ParseItems(split(strip(items_text), "\n"))
        config == <<<<"website", website>>, <<"items", items>>,
                    <<"headless", headless>>>>
    IN  IF Truthy(credentials)
        THEN Put(config, "credentials", credentials.v)
        ELSE config

\* create_temp_config: the configuration it writes to temp_json_path
create_temp_config(website, items_text, credentials, headless) ==
    LET items == ParseItems(split(strip(items_text), "\n"))
        config == <<<<"website", website>>, <<"items", items>>,
                    <<"headless", headless>>>>
    IN  IF /\ Truthy(credentials)
           /\ Get(credentials.v, "username", <<>>) # <<>>
           /\ Get(credentials.v, "password", <<>>) # <<>>
        THEN Put(config, "credentials", credentials.v)
        ELSE config

\* json.dump of a dict of texts, integers, booleans, lists and dicts, and
\* json.load of what json.dump wrote
json_dump(value) == <<"json", value>>

json_load(text) == text[2]

\* a plausible slip in the finally clause of run_cart_agent: os.remove
\* without looking whether the file is there
temp_exists_unchecked(f) == TRUE

\* os.path.exists(temp_json_path), f the file
temp_exists(f) == f # None

\* the form submissions
Submission(website, items_text, use_credentials, username, password, headless) ==
    [website |-> website, items_text |-> items_text,
     use_credentials |-> use_credentials, username |-> username,
     password |-> password, headless |-> headless]

Submissions ==
    {Submission(<<"amazon", ".", "com">>,
                <<"mouse", "|", " ", "wireless", " ", "|", " ", "|",
                  "color", ":", "black", "\n",
                  "cable", " ", "|", "usb", "|", " ", "3">>,
                FALSE, <<"alice">>, <<"secret">>, FALSE),
     Submission(<<"etsy", ".", "com">>,
                <<"pen", "|", "|", "two", "\n", "\n", "ink">>,
                TRUE, <<"alice">>, <<"secret">>, TRUE),
     Submission(<<"etsy", ".", "com">>,
                <<"pen", "|", "|", "two", "\n", "\n", "ink">>,
                TRUE, <<"alice">>, <<"hunter2">>, TRUE),
     Submission(<<"walmart", ".", "com">>,
                <<"lamp", "|", "desk", "|", "2">>,
                TRUE, <<"bob">>, <<>>, FALSE),
     Submission(<<"amazon", ".", "com">>,
                <<"|", " ", "wireless">>,
                TRUE, <<>>, <<"secret">>, FALSE)}

Invocations == {1, 2}

Idle ==
    [pc |-> "idle", sub |-> <<>>, config_json |-> <<>>, args |-> <<>>,
     agent |-> NoAgent,
     log |-> <<>>, yielded |-> 0, task |-> "none", out |-> <<>>,
     task_exc |-> "", raised |-> "", closed |-> FALSE]

Log(m) == [l |-> m]

\* run_cart_agent: items_display, one entry per item of the configuration
DisplayItem(i, item) ==
    <<[l |-> "Item", i |-> i, text |-> Get(item, "name", <<>>)]>>
    \o (IF HasKey(item, "description")
        THEN <<[l |-> "Description", text |-> Get(item, "description", <<>>)]>>
        ELSE <<>>)
    \o <<[l |-> "Quantity", q |-> Get(item, "quantity", 1)]>>
    \o (IF HasKey(item, "options")
        THEN LET options == Get(item, "options", <<>>)
             IN  <<Log("Options:")>>
                 \o [k \in 1..Len(options) |->
                        [l |-> "Option", key |-> options[k][1],
                         value |-> options[k][2]]]
        ELSE <<>>)
    \o <<Log("")>>

RECURSIVE DisplayItems(_, _)
DisplayItems(items, i) ==
    IF i > Len(items) THEN <<>>
    ELSE DisplayItem(i, items[i]) \o DisplayItems(items, i + 1)

\* a plausible slip in run_cart_agent: the log shows the credentials it
\* was given
log_before_try_with_credentials(website, config_json) ==
    <<[l |-> "Configuration created", n |-> Len(Get(config_json, "items", <<>>)),
       website |-> website],
      [l |-> "Credentials", credentials |-> Get(config_json, "credentials", <<>>)],
      Log("Starting web cart agent...")>>

\* run_cart_agent: the log before the try
log_before_try(website, config_json) ==
    <<[l |-> "Configuration created", n |-> Len(Get(config_json, "items", <<>>)),
       website |-> website],
      Log("Items to be added to cart:")>>
    \o DisplayItems(Get(config_json, "items", <<>>), 1)
    \o (IF /\ HasKey(config_json, "credentials")
           /\ Get(Get(config_json, "credentials", <<>>), "username", <<>>) # <<>>
           /\ Get(Get(config_json, "credentials", <<>>), "password", <<>>) # <<>>
        THEN <<Log("Login credentials provided. The agent will attempt to use them if needed.")>>
        ELSE <<Log("No login credentials provided. If login is required, the browser will open to the login page and pause."),
               Log("You will need to manually enter your credentials in the browser when prompted."),
               Log("This approach works better for sites with OTP verification, CAPTCHA, or two-factor authentication.")>>)
    \o <<Log("Starting web cart agent...")>>

\* run_cart_agent: the log lines of the try up to the first yield
log_initialized(website, config_json) ==
    <<[l |-> "Agent initialized for", website |-> website],
      IF ~Get(config_json, "headless", FALSE)
      THEN Log("Browser will launch with visible window so you can interact with it if needed.")
      ELSE Log("Browser will launch in headless mode. This may not work if login is required."),
      Log("This may take a few moments..."),
      Log("If login is required, the agent will navigate to the login page and wait for your input."),
      Log("Simply complete the login process in the browser window when it appears.")>>

\* the keyword arguments run_cart_agent passes to WebCartAgent
ui_args(config_json) ==
    [website |-> Get(config_json, "website", <<>>),
     items |-> Get(config_json, "items", <<>>),
     credentials |-> Some(Get(config_json, "credentials", <<>>)),
     headless |-> Get(config_json, "headless", FALSE),
     browser_instance_path |-> None]

\* run_cart_agent(i) from the call to its first yield: the configuration is
\* written and read back, the agent is constructed and its run is started
\* as a task; a constructor failure is logged by the except clause
ui_submit(i) ==
    /\ prog = "web_cart_ui"
    /\ inv[i].pc = "idle"
    /\ \E sub \in Submissions :
         LET credentials ==
                IF sub.use_credentials
                THEN Some(<<<<"username", sub.username>>,
                            <<"password", sub.password>>>>)
                ELSE None
             written == Some(json_dump(
                            create_temp_config(sub.website, sub.items_text,
                                               credentials, sub.headless)))
             config_json == json_load(written.v)
             args == ui_args(config_json)
             a == WebCartAgent(args.website, args.items, args.credentials,
                               args.headless, args.browser_instance_path)
             log0 == log_before_try(sub.website, config_json)
         IN  /\ file' = written
             /\ inv' = [inv EXCEPT ![i] =
                   [@ EXCEPT
                      !.sub = sub,
                      !.config_json = config_json,
                      !.args = args,
                      !.agent = a,
                      !.log = IF a.ok
                              THEN log0 \o log_initialized(sub.website, config_json)
                              ELSE Append(log0, [l |-> "Error during execution",
                                                 x |-> a.exc]),
                      !.yielded = 1,
                      !.task = IF a.ok THEN "created" ELSE "none",
                      !.pc = IF a.ok THEN "yield1" ELSE "yield_err"]]
    /\ UNCHANGED <<prog, pc, argv, env, fsys, loc, agent, events, raised>>

\* a plausible slip in run_cart_agent: the removal of the file is missing
Finally_keeps_file(r, f) == [r |-> [r EXCEPT !.pc = "done"], file |-> f]

\* the finally clause of run_cart_agent, r the invocation and f the file:
\* the invocation ends, the file is removed when it is there
Finally(r, f) ==
    IF temp_exists(f)
    THEN IF f = None
         THEN [r |-> [r EXCEPT !.pc = "done", !.raised = "FileNotFoundError"],
               file |-> f]
         ELSE [r |-> [r EXCEPT !.pc = "done"], file |-> None]
    ELSE [r |-> [r EXCEPT !.pc = "done"], file |-> f]

\* run_cart_agent from `await task` on, the task being done: the success
\* line and the second yield, or the except clause, or the finally clause
\* on the way out with an exception that is no Exception
AfterTask(r, f) ==
    IF r.task_exc = ""
    THEN [r |-> [r EXCEPT !.log = Append(@, [l |-> "Success! All items have been added to cart on",
                                             website |-> r.sub.website]),
                          !.yielded = @ + 1,
                          !.pc = "yield2"],
          file |-> f]
    ELSE IF r.task_exc = "Exception"
    THEN [r |-> [r EXCEPT !.log = Append(@, [l |-> "Error during execution",
                                             x |-> r.task_exc]),
                          !.yielded = @ + 1,
                          !.pc = "yield_err"],
          file |-> f]
    ELSE Finally([r EXCEPT !.raised = r.task_exc], f)

\* the consumer asks for the next value after the first yield: the
\* generator reaches `await task`
ui_resume(i) ==
    /\ prog = "web_cart_ui"
    /\ inv[i].pc = "yield1"
    /\ IF inv[i].task = "done"
       THEN LET n == AfterTask(inv[i], file)
            IN  /\ inv' = [inv EXCEPT ![i] = n.r]
                /\ file' = n.file
       ELSE /\ inv' = [inv EXCEPT ![i].pc = "await_task"]
            /\ file' = file
    /\ UNCHANGED <<prog, pc, argv, env, fsys, loc, agent, events, raised>>

\* the task of invocation i starts: WebCartAgent.run up to its await
ui_task_start(i) ==
    /\ prog = "web_cart_ui"
    /\ inv[i].task = "created"
    /\ inv' = [inv EXCEPT ![i].task = "running",
                           ![i].out = run_begin(inv[i].agent)]
    /\ UNCHANGED <<prog, pc, argv, env, fsys, loc, agent, events, raised, file>>

\* the agent call of invocation i ends and WebCartAgent.run with it
ui_task_end(i) ==
    /\ prog = "web_cart_ui"
    /\ inv[i].task = "running"
    /\ \E outcome \in AgentOutcomes :
         LET r == run_end(inv[i].agent, outcome)
         IN  inv' = [inv EXCEPT ![i].task = "done",
                                ![i].out = @ \o <<[e |-> "agent.run ended",
                                                   outcome |-> outcome]>>
                                             \o r.events,
                                ![i].task_exc = r.exc]
    /\ UNCHANGED <<prog, pc, argv, env, fsys, loc, agent, events, raised, file>>

\* the task is done and the generator waiting for it goes on
ui_wake(i) ==
    /\ prog = "web_cart_ui"
    /\ inv[i].pc = "await_task"
    /\ inv[i].task = "done"
    /\ LET n == AfterTask(inv[i], file)
       IN  /\ inv' = [inv EXCEPT ![i] = n.r]
           /\ file' = n.file
    /\ UNCHANGED <<prog, pc, argv, env, fsys, loc, agent, events, raised>>

\* the consumer asks for the next value after the last yield: the generator
\* leaves the try and runs the finally clause
ui_finish(i) ==
    /\ prog = "web_cart_ui"
    /\ inv[i].pc \in {"yield2", "yield_err"}
    /\ LET n == Finally(inv[i], file)
       IN  /\ inv' = [inv EXCEPT ![i] = n.r]
           /\ file' = n.file
    /\ UNCHANGED <<prog, pc, argv, env, fsys, loc, agent, events, raised>>

\* the consumer closes the generator at a yield: GeneratorExit is raised
\* there, no except clause handles it, the finally clause runs
ui_close(i) ==
    /\ prog = "web_cart_ui"
    /\ inv[i].pc \in {"yield1", "yield2", "yield_err"}
    /\ LET n == Finally([inv[i] EXCEPT !.closed = TRUE], file)
       IN  /\ inv' = [inv EXCEPT ![i] = n.r]
           /\ file' = n.file
    /\ UNCHANGED <<prog, pc, argv, env, fsys, loc, agent, events, raised>>

InitUI ==
    /\ prog = "web_cart_ui"
    /\ pc = "serving"
    /\ loc = NoLocals
    /\ agent = NoAgent
    /\ events = <<>>
    /\ raised = ""
    /\ file = None
    /\ inv = [i \in Invocations |-> Idle]
    /\ argv = None
    /\ env \in InteractiveEnvs
    /\ fsys = FS(DefaultConfig)

NextUI ==
    \E i \in Invocations :
        \/ ui_submit(i)
        \/ ui_resume(i)
        \/ ui_task_start(i)
        \/ ui_task_end(i)
        \/ ui_wake(i)
        \/ ui_finish(i)
        \/ ui_close(i)

SpecUI == InitUI /\ [][NextUI]_vars

(***************************************************************************)
(* The four programs of the repository, one of them started                *)
(***************************************************************************)
Init == InitWeb \/ InitBasic \/ InitAdvanced \/ InitUI

Next == NextWeb \/ NextBasic \/ NextAdvanced \/ NextUI

Spec == Init /\ [][Next]_vars

(***************************************************************************)
(* Claims about the quantity default and about overlapping submissions     *)
(***************************************************************************)
IsBlank(entry) == strip(entry) = <<>>

\* the Quantity lines of the items section of a WebCartAgent task, in order
QuantityLines(task) ==
    SelectSeq(task[1].items_formatted, LAMBDA x : x.line = "Quantity")

\* the item lines of a submission that create_temp_config does not skip
ItemLines(sub) ==
    SelectSeq(split(strip(sub.items_text), "\n"), LAMBDA l : strip(l) # <<>>)

\* whether the quantity field of an item line is there and blank
BlankQuantityField(line) ==
    LET parts == split(line, "|")
    IN  Len(parts) > 2 /\ IsBlank(parts[3])

C4_Basic ==
    (prog = "ecommerce_cart_agent" /\ agent.ok /\ IsBlank(loc.entries[1]))
        => agent.task[1].quantity = 1

C4_Advanced ==
    (prog = "ecommerce_cart_agent_advanced" /\ agent.ok)
        => \A k \in 1..Len(agent.task[1].lines) :
              IsBlank(loc.entries[k]) => agent.task[1].lines[k].quantity = 1

C4_Web ==
    (prog = "web_cart_agent" /\ argv = None /\ agent.ok)
        => /\ Len(QuantityLines(agent.task)) = Len(loc.items)
           /\ \A k \in 1..Len(loc.items) :
                 IsBlank(loc.entries[k]) => QuantityLines(agent.task)[k].q = 1

C4_UI ==
    prog = "web_cart_ui"
        => \A i \in Invocations :
              inv[i].agent.ok
                 => LET lines == ItemLines(inv[i].sub)
                        quantities == QuantityLines(inv[i].agent.task)
                    IN  /\ Len(quantities) = Len(lines)
                        /\ \A k \in 1..Len(lines) :
                              BlankQuantityField(lines[k])
                                 => quantities[k].q = 1

\* C4: whenever the quantity entry for an item is blank, the quantity in
\* the task of the constructed agent for that item is 1: at the prompts of
\* ecommerce_cart_agent.main, of ecommerce_cart_agent_advanced
\* run_interactive and of web_cart_agent.run_interactive, and for an item
\* line of the form whose quantity field is blank
C4_BlankQuantityIsOne == C4_Basic /\ C4_Advanced /\ C4_Web /\ C4_UI

\* web_cart_agent.run_interactive constructed an agent for two items, the
\* first entered with a blank quantity and the second with 10
C4_Witness ==
    /\ prog = "web_cart_agent"
    /\ argv = None
    /\ agent.ok
    /\ loc.entries = <<<<>>, <<"1", "0">>>>
    /\ QuantityLines(agent.task)[1].q = 1
    /\ QuantityLines(agent.task)[2].q = 10

\* what invocation i passes to WebCartAgent when nothing but its own
\* submission decides it
OwnArgs(sub) ==
    [website |-> sub.website,
     items |-> ParseItems(split(strip(sub.items_text), "\n")),
     credentials |->
        Some(IF sub.use_credentials /\ sub.username # <<>> /\ sub.password # <<>>
             THEN <<<<"username", sub.username>>, <<"password", sub.password>>>>
             ELSE <<>>),
     headless |-> sub.headless,
     browser_instance_path |-> None]

\* C7: of two run_cart_agent invocations interleaved at their suspension
\* points, each calls the constructor with the website, items, credentials
\* and headless value of its own submission, and none ends with an error
\* about the shared file temp_cart_config.json
C7_NoInterference ==
    prog = "web_cart_ui"
        => \A i \in Invocations :
              /\ inv[i].pc # "idle" => inv[i].args = OwnArgs(inv[i].sub)
              /\ inv[i].raised # "FileNotFoundError"
              /\ \A k \in 1..Len(inv[i].log) :
                    inv[i].log[k].l = "Error during execution"
                       => inv[i].log[k].x = "ValueError"

\* invocation 1 ended and removed the file while invocation 2, started on
\* a different submission, has its agent running
C7_Witness ==
    /\ prog = "web_cart_ui"
    /\ inv[1].pc = "done"
    /\ inv[1].agent.ok
    /\ inv[2].pc = "await_task"
    /\ inv[2].task = "running"
    /\ inv[2].sub # inv[1].sub
    /\ file = None

(***************************************************************************)
(* Claims about the messages of a run                                      *)
(***************************************************************************)
\* the way the agent call of invocation i ended, as a set (empty before)
UIOutcomes(i) ==
    {inv[i].out[k].outcome :
        k \in {j \in DOMAIN inv[i].out : inv[i].out[j].e = "agent.run ended"}}

LogHas(i, l) == \E k \in DOMAIN inv[i].log : inv[i].log[k].l = l

\* C11 (as claimed): the log of run_cart_agent has the line 'Success! All
\* items have been added to cart on <website>.' only if the agent call
\* returned without raising, and whenever the agent call raised, the log
\* the generator yields last has 'Error during execution' and no success
\* line.
C11_SuccessOnlyAfterSuccess ==
    prog = "web_cart_ui"
    => \A i \in Invocations :
          /\ LogHas(i, "Success! All items have been added to cart on")
                => UIOutcomes(i) = {"returns"}
          /\ (inv[i].pc \in {"yield2", "yield_err"}
              /\ UIOutcomes(i) = {"Exception"})
                => /\ LogHas(i, "Error during execution")
                   /\ ~LogHas(i, "Success! All items have been added to cart on")

CompletionMessages ==
    {"Task completed successfully. All items have been added to cart",
     "Task complete. The browser window will remain open so you can continue shopping.",
     "Task complete. Your items remain in the cart on the website."}

FailureMessages ==
    {"Error during execution", "Browser window is still available for your use."}

\* the messages printed after position i
PrintsAfter(i) ==
    {j \in DOMAIN events : j > i /\ events[j].e = "print"}

\* C12 (as claimed): in WebCartAgent.run the messages saying that the task
\* completed are printed only when the agent call returned normally; after
\* a failed agent call only the error message and the browser-availability
\* notice are printed; on a successful run each completion message is
\* printed at most once.
C12_CompletionOnlyOnSuccess ==
    prog = "web_cart_agent"
    => \A i \in At("agent.run ended") :
          /\ events[i].outcome # "returns"
                => \A j \in PrintsAfter(i) :
                      /\ events[j].m \notin CompletionMessages
                      /\ events[i].outcome = "Exception"
                            => events[j].m \in FailureMessages
          /\ events[i].outcome = "returns"
                => \A m \in CompletionMessages :
                      Cardinality({j \in PrintsAfter(i) : events[j].m = m}) <= 1

\* the spellings of a known site the lookup is claimed not to depend on
C13_Spellings(w) ==
    {<<w[1], ".", "com">>, <<w[2], ".", "com">>, <<w[3], ".", "com">>,
     <<"www", ".", w[1], ".", "com">>, <<"https://", w[1], ".", "com">>}

\* C13 (as claimed): for every known site S the websites S.com, the same
\* in upper or mixed case, www.S.com and https://S.com all select the
\* instruction block of S and not the generic block.
C13_LookupIgnoresSpelling ==
    Constructed
    => \A w \in KnownSiteWords :
          loc.website \in C13_Spellings(w)
             => agent.task[Len(agent.task)].block = w[1]

(***************************************************************************)
(* Claims about the temporary configuration file                           *)
(***************************************************************************)
\* C14: the file temp_cart_config.json does not outlive the runs that need
\* it: when every run_cart_agent invocation that was started has ended, by
\* success, by an error in constructing or running the agent, or by the
\* generator being closed at a yield, the file does not exist
C14_FileRemovedWhenAllEnded ==
    (prog = "web_cart_ui" /\ \A i \in Invocations : inv[i].pc \in {"idle", "done"})
        => file = None

\* invocation 1 was closed after its first yield, invocation 2 ran to its
\* success line and ended, and the file is gone
C14_Witness ==
    /\ prog = "web_cart_ui"
    /\ inv[1].pc = "done" /\ inv[1].closed /\ inv[1].yielded = 1
    /\ inv[2].pc = "done" /\ ~inv[2].closed
    /\ LogHas(2, "Success! All items have been added to cart on")
    /\ inv[2].config_json # inv[1].config_json
    /\ file = None

(***************************************************************************)
(* The login-wait script of js_login_code, run in the page: the promise    *)
(* executor shows the alert and arms a timer for confirmLogin; alert and   *)
(* confirm block the page until the operator answers.  loc holds the       *)
(* page's clock (ms), its pending timers (their due times) and the         *)
(* promise; events is what happened.                                       *)
(***************************************************************************)
Delay == 5000

MaxTime == 16000

\* how long the operator takes to answer a dialog, and how far the clock
\* moves while the page is idle
Waits == {0, 2000, 5000}

\* setTimeout(confirmLogin, 5000) at time now
setTimeout(timers, now) == Append(timers, now + Delay)

\* a plausible slip in confirmLogin: the promise is resolved whatever the
\* operator answers
confirmLogin_resolves_always(accepted, timers, now) ==
    [resolved |-> Some("Login confirmed by user"), timers |-> timers,
     events |-> <<[e |-> "resolve", at |-> now]>>]

\* confirmLogin after the operator answered its confirm dialog at time now
confirmLogin(accepted, timers, now) ==
    IF accepted
    THEN [resolved |-> Some("Login confirmed by user"), timers |-> timers,
          events |-> <<[e |-> "resolve", at |-> now]>>]
    ELSE [resolved |-> None, timers |-> setTimeout(timers, now),
          events |-> <<[e |-> "setTimeout", at |-> now]>>]

\* the promise executor starts: alert(...) is shown
js_alert ==
    /\ prog = "js_login_code"
    /\ pc = "call"
    /\ events' = Append(events, [e |-> "alert", at |-> loc.now])
    /\ pc' = "alert"
    /\ UNCHANGED <<prog, argv, env, fsys, loc, agent, raised, file, inv>>

\* the operator dismisses the alert; the executor arms the first timer and
\* returns
js_dismiss ==
    /\ prog = "js_login_code"
    /\ pc = "alert"
    /\ \E w \in Waits :
         LET now == loc.now + w
         IN  /\ now <= MaxTime
             /\ loc' = [loc EXCEPT !.now = now,
                                   !.timers = setTimeout(@, now)]
             /\ events' = events \o <<[e |-> "alert dismissed", at |-> now],
                                      [e |-> "setTimeout", at |-> now]>>
    /\ pc' = "idle"
    /\ UNCHANGED <<prog, argv, env, fsys, agent, raised, file, inv>>

\* time passes while the page is idle
js_wait ==
    /\ prog = "js_login_code"
    /\ pc = "idle"
    /\ \E w \in Waits \ {0} :
         /\ loc.now + w <= MaxTime
         /\ loc' = [loc EXCEPT !.now = @ + w]
    /\ UNCHANGED <<prog, pc, argv, env, fsys, agent, events, raised, file, inv>>

\* a timer that is due fires: confirmLogin runs and shows confirm(...)
js_timer ==
    /\ prog = "js_login_code"
    /\ pc = "idle"
    /\ \E k \in DOMAIN loc.timers :
         /\ loc.timers[k] <= loc.now
         /\ loc' = [loc EXCEPT !.timers =
                       SubSeq(@, 1, k - 1) \o SubSeq(@, k + 1, Len(@))]
         /\ events' = events \o <<[e |-> "timer", at |-> loc.now,
                                   due |-> loc.timers[k]],
                                  [e |-> "confirm", at |-> loc.now]>>
    /\ pc' = "confirm"
    /\ UNCHANGED <<prog, argv, env, fsys, agent, raised, file, inv>>

\* the operator answers the confirm dialog; confirmLogin goes on
js_answer ==
    /\ prog = "js_login_code"
    /\ pc = "confirm"
    /\ \E accepted \in BOOLEAN, w \in Waits :
         LET now == loc.now + w
             r == confirmLogin(accepted, loc.timers, now)
         IN  /\ now <= MaxTime
             /\ loc' = [loc EXCEPT !.now = now,
                                   !.timers = r.timers,
                                   !.resolved = IF @ = None THEN r.resolved ELSE @]
             /\ events' = events \o <<[e |-> "answer", at |-> now,
                                       accepted |-> accepted]>>
                                 \o r.events
    /\ pc' = "idle"
    /\ UNCHANGED <<prog, argv, env, fsys, agent, raised, file, inv>>

InitLogin ==
    /\ prog = "js_login_code"
    /\ pc = "call"
    /\ loc = [now |-> 0, timers |-> <<>>, resolved |-> None]
    /\ argv = None
    /\ env = EnvOf({})
    /\ fsys = FS(DefaultConfig)
    /\ agent = NoAgent
    /\ events = <<>>
    /\ raised = ""
    /\ file = None
    /\ inv = <<>>

NextLogin == js_alert \/ js_dismiss \/ js_wait \/ js_timer \/ js_answer

SpecLogin == InitLogin /\ [][NextLogin]_vars

\* the answers given to the confirm dialogs so far
Answers == {i \in DOMAIN events : events[i].e = "answer"}

\* C15: in the login-wait script the promise resolves, with 'Login
\* confirmed by user', only after the operator accepted a confirm dialog
\* and never while every answer was a decline; the alert comes first; a
\* confirm dialog is asked only by a timer armed 5 seconds before, the
\* first one armed after the alert was dismissed; every decline arms
\* exactly one further timer; at most one timer is pending at any time
C15_LoginWait ==
    prog = "js_login_code"
    => /\ loc.resolved # None
            => /\ loc.resolved = Some("Login confirmed by user")
               /\ \E i \in Answers : events[i].accepted
       /\ (\A i \in Answers : ~events[i].accepted) => At("resolve") = {}
       /\ events # <<>> => events[1].e = "alert"
       /\ \A i \in At("confirm") :
             /\ events[i - 1].e = "timer"
             /\ \E j \in At("setTimeout") :
                   /\ j < i
                   /\ events[j].at + Delay = events[i - 1].due
                   /\ events[i].at >= events[j].at + Delay
                   /\ \E d \in At("alert dismissed") : d < j
       /\ \A i \in Answers :
             ~events[i].accepted
                => /\ events[i + 1].e = "setTimeout"
                   /\ (i + 2 \in DOMAIN events => events[i + 2].e # "setTimeout")
       /\ Count("setTimeout")
             = Count("alert dismissed")
               + Cardinality({i \in Answers : ~events[i].accepted})
       /\ Len(loc.timers) <= 1
       /\ pc \in {"alert", "confirm"} => loc.timers = <<>>

\* the operator declined twice and then accepted: the promise is resolved
C15_Witness ==
    /\ prog = "js_login_code"
    /\ loc.resolved = Some("Login confirmed by user")
    /\ Cardinality({i \in Answers : ~events[i].accepted}) = 2
    /\ loc.timers = <<>>

(***************************************************************************)
(* Claims about closing the browser                                        *)
(***************************************************************************)
\* C16: in EcommerceCartAgent.run of the basic and the advanced script the
\* browser is closed exactly once on every path: whether the agent call
\* returns or raises, browser.close() is called after the agent call has
\* ended and directly after the operator answered the Enter prompt, never
\* before
C16_ClosedOnceAfterEnter ==
    prog \in {"ecommerce_cart_agent", "ecommerce_cart_agent_advanced"}
    => /\ Count("browser.close") <= 1
       /\ Count("browser.close") = Count("agent.run ended")
       /\ \A c \in At("browser.close") :
             /\ \E i \in At("agent.run ended") : i < c
             /\ events[c - 1].e = "input"
             /\ events[c - 1].p = "Press Enter to close the browser..."
       /\ (pc = "exit" /\ agent.ok) => Count("browser.close") = 1

\* the advanced script's agent call raised an Exception and the browser
\* was closed once
C16_Witness ==
    /\ prog = "ecommerce_cart_agent_advanced"
    /\ pc = "exit"
    /\ \E i \in At("agent.run ended") : events[i].outcome = "Exception"
    /\ Count("browser.close") = 1
    /\ agent.browser.closed

\* C17: WebCartAgent keeps the browser open: in every execution of
\* WebCartAgent.run with cleanup, on the success path and on the failure
\* path of the agent call, the browser is not closed, no browser process
\* is held or terminated, and cleanup prints its two lines and returns
C17_BrowserStaysOpen ==
    prog = "web_cart_agent"
    => /\ Count("browser.close") = 0
       /\ agent.ok => (~agent.browser.closed /\ agent.browser_process = None)
       /\ \A i \in At("agent.run ended") :
             events[i].outcome \in {"returns", "Exception"}
                => Cardinality({c \in At("cleanup") : c > i}) = 1
       /\ \A c \in At("cleanup") :
             /\ events[c + 1].e = "print" /\ events[c + 2].e = "print"
             /\ events[c + 3].e = "WebCartAgent.run ended"
             /\ events[c + 3].exc = ""

\* a run with a custom browser whose agent call returned: cleanup ran and
\* the browser is open
C17_Witness ==
    /\ prog = "web_cart_agent"
    /\ pc = "exit"
    /\ agent.ok /\ agent.custom_browser_used /\ ~agent.browser.closed
    /\ \E i \in At("agent.run ended") : events[i].outcome = "returns"
    /\ Count("cleanup") = 1

(***************************************************************************)
(* Claims about the custom browser                                         *)
(***************************************************************************)
\* the browser path of a construction: the argument, else
\* BROWSER_INSTANCE_PATH
C18_Path ==
    IF loc.browser_instance_path # None /\ loc.browser_instance_path.v # <<>>
    THEN loc.browser_instance_path
    ELSE IF <<"BROWSER_INSTANCE_PATH">> \in DOMAIN env
    THEN Some(env[<<"BROWSER_INSTANCE_PATH">>])
    ELSE None

\* the executable that path stands for: the path when it is an existing
\* file, the resolved executable of an existing directory ending in .app
\* when that is an existing file, else none
C18_Executable ==
    LET p == C18_Path
    IN  IF p = None \/ p.v = <<>> THEN None
        ELSE IF p.v \in fsys.files THEN p
        ELSE IF /\ p.v[Len(p.v)] = ".app"
                /\ p.v \in fsys.dirs
                /\ _resolve_app_path(p.v) \in fsys.files
        THEN Some(_resolve_app_path(p.v))
        ELSE None

\* the headless value computed from the environment and the argument
C18_Headless ==
    lower(IF <<"BROWSER_HEADLESS">> \in DOMAIN env
          THEN env[<<"BROWSER_HEADLESS">>]
          ELSE str(loc.headless)) = <<"true">>

\* C18: in WebCartAgent.__init__ custom_browser_used is true exactly when
\* the browser path stands for an executable; then the browser is
\* configured with that executable and headless=False whatever the
\* argument and BROWSER_HEADLESS say; otherwise the configuration has no
\* custom path and the headless value computed from environment and
\* argument
C18_CustomBrowser ==
    Constructed
    => /\ agent.custom_browser_used <=> C18_Executable # None
       /\ C18_Executable # None
             => agent.browser.config
                   = [headless |-> FALSE, browser_instance_path |-> C18_Executable]
       /\ C18_Executable = None
             => agent.browser.config
                   = [headless |-> C18_Headless, browser_instance_path |-> None]

\* a construction with headless=True and BROWSER_HEADLESS=true on the .app
\* directory of Brave: the executable inside it is used, visibly
C18_Witness ==
    /\ Constructed
    /\ loc.browser_instance_path = Some(BraveApp)
    /\ loc.headless
    /\ <<"BROWSER_HEADLESS">> \in DOMAIN env
    /\ env[<<"BROWSER_HEADLESS">>] = <<"true">>
    /\ agent.custom_browser_used
    /\ agent.browser.config
          = [headless |-> FALSE, browser_instance_path |-> Some(BraveExe)]

(***************************************************************************)
(* Claims about the interactive entry loops                                *)
(***************************************************************************)
Interactive ==
    /\ prog \in {"web_cart_agent", "ecommerce_cart_agent_advanced"}
    /\ argv = None

\* the constructor calls so far
Constructions == At("WebCartAgent") \cup At("EcommerceCartAgent")

\* no agent is constructed or run without items; entry that ends without
\* items prints the notice and returns
C19_NoAgentWithoutItems ==
    Interactive
    => /\ (Constructions # {} \/ agent.ok) => loc.items # <<>>
       /\ agent.ok => (IF prog = "web_cart_agent" THEN agent.items
                       ELSE agent.products) = loc.items
       /\ (pc \in {"ri_finish", "agent_run"}) => loc.items # <<>>
       /\ (pc = "exit" /\ loc.items = <<>> /\ raised = "")
             => /\ Constructions = {}
                /\ events[Len(events)].e = "print"
                /\ events[Len(events)].m
                      = (IF prog = "web_cart_agent"
                         THEN "No items specified. Exiting."
                         ELSE "No products specified. Exiting.")

\* a step of the entry loop: it takes up a further item only for a
\* non-blank name, and after an item only when the answer to 'Add another'
\* is one of the answers in Yes
C19_LoopStep(Yes) ==
    Interactive
    => /\ (pc = "ri_item" /\ pc' = "ri_option")
             => (IF prog = "web_cart_agent"
                 THEN Get(loc'.item, "name", <<>>)
                 ELSE loc'.item.url) # <<>>
       /\ (pc = "ri_item" /\ pc' # "ri_option" /\ raised' = "")
             => pc' \in {"exit", "ri_finish"}
       /\ (pc = "ri_option" /\ loc'.items # loc.items)
             => /\ pc' = "ri_item" => loc'.another \in Yes
                /\ pc' # "ri_item" => pc' \in {"exit", "ri_finish"}
                /\ (loc'.another \notin Yes) => pc' # "ri_item"

\* C19 (as claimed): in interactive mode of web_cart_agent and of
\* ecommerce_cart_agent_advanced no agent is constructed or run with an
\* empty item list, ending the entry without items prints the notice and
\* returns, and the entry loop ends as soon as the item name is blank or
\* the answer to 'Add another' is not 'y'.
C19_LoopEndsUnlessY ==
    [](C19_NoAgentWithoutItems) /\ [][C19_LoopStep({<<"y">>})]_vars

\* C19 (amended): as claimed, with the answer to 'Add another' compared
\* without regard to case: the loop ends unless the answer is 'y' or 'Y'
C19_LoopEndsUnlessYAnyCase ==
    [](C19_NoAgentWithoutItems) /\ [][C19_LoopStep({<<"y">>, <<"Y">>})]_vars

\* the operator ended the entry of web_cart_agent.run_interactive at the
\* first name prompt: the notice is printed and no agent exists
C19_Witness ==
    /\ prog = "web_cart_agent"
    /\ argv = None
    /\ pc = "exit"
    /\ loc.items = <<>>
    /\ events[Len(events)] = print("No items specified. Exiting.")
    /\ ~agent.ok

(***************************************************************************)
(* create_temp_config on its own: the function applied to items texts      *)
(* built from lines whose fields are drawn from small sets                 *)
(***************************************************************************)
MaxLines == 3

NameFields == {<<"mouse">>, <<" ", "usb", " ", "cable", " ">>}

DescriptionFields == {<<>>, <<" ">>, <<" ", "wireless">>}

QuantityFields == {<<>>, <<" ">>, <<" ", "1", "0", " ">>, <<"-", "2">>, <<"two">>}

OptionFields ==
    {<<>>, <<"color">>, <<":">>, <<" ", "color", " ", ":", " ", "black", " ">>,
     <<"color", ":", "black", ",", "size", ",", "length", ":", "1", ":", "2">>}

\* the fields of a line, joined by "|"
Line1(n) == n

Line2(n, d) == n \o <<"|">> \o d

Line3(n, d, q) == n \o <<"|">> \o d \o <<"|">> \o q

Line4(n, d, q, o) == n \o <<"|">> \o d \o <<"|">> \o q \o <<"|">> \o o

\* the lines one of which is in every text
ItemLineInputs ==
    {Line1(n) : n \in NameFields}
    \cup {Line2(n, d) : n \in NameFields \cup {<<>>}, d \in DescriptionFields}
    \cup {Line3(n, d, q) : n \in NameFields, d \in DescriptionFields,
                           q \in QuantityFields}
    \cup {Line4(n, d, q, o) : n \in NameFields, d \in DescriptionFields,
                              q \in QuantityFields, o \in OptionFields}

\* the lines before it
LeadingLines == {<<>>, <<" ">>, <<"pen">>, <<"lamp", "|", "|", "3">>}

RECURSIVE LineSeqs(_)
\* the sequences of at most n leading lines
LineSeqs(n) ==
    IF n = 0 THEN {<<>>}
    ELSE LET shorter == LineSeqs(n - 1)
         IN  shorter \cup {Append(ls, l) : ls \in shorter, l \in LeadingLines}

RECURSIVE JoinLines(_)
\* "\n".join(lines)
JoinLines(lines) ==
    IF lines = <<>> THEN <<>>
    ELSE IF Len(lines) = 1 THEN lines[1]
    ELSE lines[1] \o <<"\n">> \o JoinLines(Tail(lines))

ItemsTexts ==
    {<<>>} \cup {JoinLines(Append(ls, l)) :
                    ls \in LineSeqs(MaxLines - 1), l \in ItemLineInputs}

InitConfig ==
    /\ prog = "create_temp_config"
    /\ pc = "call"
    /\ \/ loc \in {Submission(<<"amazon", ".", "com">>, t, FALSE, <<>>, <<>>, FALSE) :
                     t \in ItemsTexts}
       \/ loc \in {Submission(<<"etsy", ".", "com">>, <<"pen">>, TRUE, u, p, h) :
                     u \in {<<>>, <<"alice">>}, p \in {<<>>, <<"secret">>},
                     h \in BOOLEAN}
    /\ argv = None
    /\ env = EnvOf({})
    /\ fsys = FS(DefaultConfig)
    /\ agent = NoAgent
    /\ events = <<>>
    /\ raised = ""
    /\ file = None
    /\ inv = <<>>

\* create_temp_config(website, items_text, credentials, headless) as
\* run_cart_agent calls it: the configuration is written to the file
call_create_temp_config ==
    /\ prog = "create_temp_config"
    /\ pc = "call"
    /\ file' = Some(json_dump(create_temp_config(
                  loc.website, loc.items_text,
                  IF loc.use_credentials
                  THEN Some(<<<<"username", loc.username>>,
                              <<"password", loc.password>>>>)
                  ELSE None,
                  loc.headless)))
    /\ pc' = "return"
    /\ UNCHANGED <<prog, argv, env, fsys, loc, agent, events, raised, inv>>

SpecConfig == InitConfig /\ [][call_create_temp_config]_vars

\* field n of an item line ("" when the line has fewer fields)
C20_Field(line, n) ==
    LET parts == split(line, "|")
    IN  IF Len(parts) >= n THEN parts[n] ELSE <<>>

\* the text of a line before its first "|"
C20_BeforeBar(line) ==
    IF \E k \in DOMAIN line : line[k] = "|"
    THEN SubSeq(line, 1, (CHOOSE k \in DOMAIN line :
                            /\ line[k] = "|"
                            /\ \A j \in 1..(k - 1) : line[j] # "|") - 1)
    ELSE line

\* the key:value pairs an options field yields
C20_Pairs(field) ==
    LET pairs == split(strip(field), ",")
    IN  {k \in DOMAIN pairs : \E j \in DOMAIN pairs[k] : pairs[k][j] = ":"}

\* C20: create_temp_config produces exactly one item per non-blank line of
\* the items text, in line order, whose name is the trimmed text before
\* the first '|'; the item has a description only when the second field is
\* non-empty, a quantity only when the third field parses as an integer (a
\* quantity that is no number is dropped, so that the default 1 applies),
\* and options only when the fourth field yields at least one key:value
\* pair
C20_OneItemPerLine ==
    (prog = "create_temp_config" /\ pc = "return")
    => LET lines == ItemLines(loc)
           items == Get(json_load(file.v), "items", <<>>)
       IN  /\ raised = ""
           /\ Len(items) = Len(lines)
           /\ \A k \in 1..Len(lines) :
                 LET item == items[k]
                     q == int(C20_Field(lines[k], 3))
                 IN  /\ Get(item, "name", <<"?">>) = strip(C20_BeforeBar(lines[k]))
                     /\ HasKey(item, "description")
                           => /\ C20_Field(lines[k], 2) # <<>>
                              /\ Get(item, "description", <<>>)
                                    = strip(C20_Field(lines[k], 2))
                     /\ HasKey(item, "quantity")
                           => q.ok /\ Get(item, "quantity", 1) = q.v
                     /\ ~q.ok => FormatItem(k, item)
                                    = FormatItem(k, Put(item, "quantity", 1))
                     /\ HasKey(item, "options")
                           => /\ C20_Pairs(C20_Field(lines[k], 4)) # {}
                              /\ Len(Get(item, "options", <<>>)) >= 1

\* a text of two item lines around a blank line, the second line with a
\* quantity that is no number and one option: two items, the second
\* without quantity
C20_Witness ==
    /\ prog = "create_temp_config"
    /\ pc = "return"
    /\ loc.items_text
          = JoinLines(<<<<"pen">>, <<" ">>,
                        Line4(<<"mouse">>, <<" ", "wireless">>, <<"two">>,
                              <<" ", "color", " ", ":", " ", "black", " ">>)>>)
    /\ Get(json_load(file.v), "items", <<>>)
          = << <<<<"name", <<"pen">>>>>>,
               <<<<"name", <<"mouse">>>>, <<"description", <<"wireless">>>>,
                 <<"options", <<<<<<"color">>, <<"black">>>>>>>>>> >>

(***************************************************************************)
(* Claims about what the form passes on                                    *)
(***************************************************************************)
\* the Item lines of the items section of a WebCartAgent task, in order
ItemHeads(task) ==
    SelectSeq(task[1].items_formatted, LAMBDA x : x.line = "Item")

\* C21 (as claimed): every item written by create_temp_config and passed
\* on to WebCartAgent has a non-empty name: no item with an empty name
\* reaches the agent's task.
C21_NamesNotEmpty ==
    prog = "web_cart_ui"
    => \A i \in Invocations :
          /\ inv[i].pc # "idle"
                => \A k \in DOMAIN inv[i].args.items :
                      Get(inv[i].args.items[k], "name", <<>>) # <<>>
          /\ inv[i].agent.ok
                => \A k \in DOMAIN ItemHeads(inv[i].agent.task) :
                      ItemHeads(inv[i].agent.task)[k].text # <<>>

\* whether the form gives a complete pair of credentials
C22_PairGiven(sub) ==
    sub.use_credentials /\ sub.username # <<>> /\ sub.password # <<>>

\* C22: in the form interface credentials are passed as a pair or not at
\* all: the configuration written by create_temp_config has a credentials
\* key exactly when 'Use Login Credentials' is checked and username and
\* password are both non-empty, and then it is that pair; in every other
\* case the constructor is called with empty credentials and the log says
\* that no login credentials were provided
C22_CredentialsPairOrNone ==
    prog = "web_cart_ui"
    => \A i \in Invocations :
          inv[i].pc # "idle"
             => LET sub == inv[i].sub
                    given == C22_PairGiven(sub)
                IN  /\ HasKey(inv[i].config_json, "credentials") <=> given
                    /\ given
                          => /\ Get(inv[i].config_json, "credentials", <<>>)
                                   = <<<<"username", sub.username>>,
                                       <<"password", sub.password>>>>
                             /\ inv[i].args.credentials
                                   = Some(Get(inv[i].config_json, "credentials", <<>>))
                             /\ LogHas(i, "Login credentials provided. The agent will attempt to use them if needed.")
                    /\ ~given
                          => /\ inv[i].args.credentials = Some(<<>>)
                             /\ LogHas(i, "No login credentials provided. If login is required, the browser will open to the login page and pause.")
                             /\ ~LogHas(i, "Login credentials provided. The agent will attempt to use them if needed.")

\* one invocation was submitted with the box checked and a password but no
\* username, the other with both values filled in and the box unchecked:
\* both have an agent with the placeholders for credentials
C22_Witness ==
    /\ prog = "web_cart_ui"
    /\ inv[1].pc # "idle" /\ inv[2].pc # "idle"
    /\ inv[1].sub.use_credentials
    /\ inv[1].sub.username = <<>> /\ inv[1].sub.password = <<"secret">>
    /\ ~inv[2].sub.use_credentials
    /\ inv[2].sub.username = <<"alice">> /\ inv[2].sub.password = <<"secret">>
    /\ \A i \in Invocations :
          /\ inv[i].agent.ok
          /\ inv[i].agent.credentials
                = <<<<"username", ASK_USER>>, <<"password", ASK_USER>>>>

\* the invocations differ in nothing but the value of a non-empty password
C25_DifferInPasswordOnly ==
    /\ inv[1].pc # "idle" /\ inv[2].pc # "idle"
    /\ inv[1].sub.password # <<>> /\ inv[2].sub.password # <<>>
    /\ inv[1].sub.password # inv[2].sub.password
    /\ [inv[1].sub EXCEPT !.password = <<>>] = [inv[2].sub EXCEPT !.password = <<>>]

\* C25: the log yielded by run_cart_agent does not reveal the password:
\* two invocations that differ only in the value of a non-empty password
\* and whose agent calls ended the same way have yielded the same logs
C25_LogHidesPassword ==
    (prog = "web_cart_ui" /\ C25_DifferInPasswordOnly)
    => /\ (inv[1].yielded = inv[2].yielded /\ UIOutcomes(1) = UIOutcomes(2))
             => inv[1].log = inv[2].log
       /\ \A i \in Invocations : \A k \in DOMAIN inv[i].log :
             DOMAIN inv[i].log[k]
                \subseteq {"l", "n", "website", "i", "text", "q", "key",
                           "value", "x"}

\* two invocations with passwords 'secret' and 'hunter2', otherwise alike,
\* both ran to their final log
C25_Witness ==
    /\ prog = "web_cart_ui"
    /\ C25_DifferInPasswordOnly
    /\ inv[1].sub.use_credentials
    /\ inv[1].pc = "done" /\ inv[2].pc = "done"
    /\ inv[1].yielded = 2 /\ inv[2].yielded = 2
    /\ inv[1].log = inv[2].log

(***************************************************************************)
(* Claims about a failing constructor                                      *)
(***************************************************************************)
\* the constructor of invocation i of run_cart_agent raised
C23_UIConstructorFailed(i) == inv[i].pc # "idle" /\ ~inv[i].agent.ok

\* run_cart_agent reports it: the log it yields ends with the line 'Error
\* during execution' carrying the exception's message, no agent run was
\* started, and unless the consumer closed the generator it ends without an
\* exception
C23_UIReports ==
    prog = "web_cart_ui"
    => \A i \in Invocations :
          C23_UIConstructorFailed(i)
             => /\ inv[i].pc \in {"yield_err", "done"}
                /\ inv[i].yielded = 1
                /\ inv[i].log[Len(inv[i].log)]
                      = [l |-> "Error during execution", x |-> inv[i].agent.exc]
                /\ inv[i].task = "none"
                /\ ~inv[i].closed => inv[i].raised = ""

\* the step that ends an invocation whose constructor raised leaves no
\* temp file behind
C23_UIRemovesFile ==
    \A i \in Invocations :
       (/\ prog = "web_cart_ui"
        /\ C23_UIConstructorFailed(i)
        /\ inv[i].pc = "yield_err"
        /\ inv'[i].pc = "done")
          => file' = None

\* the constructor calls of web_cart_agent.py that raised
C23_WebFailures ==
    {k \in At("WebCartAgent") : ~events[k].ok}

\* the messages the except clause of the caller printed after position k
C23_CallerPrints(k) ==
    {events[j].m : j \in {n \in PrintsAfter(k) : "by" \in DOMAIN events[n]
                                                 /\ events[n].by = "caller"}}

\* run_from_json and run_interactive catch it and print it
C23_WebReports ==
    prog = "web_cart_agent"
    => \A k \in C23_WebFailures :
          /\ raised = ""
          /\ "Error during execution" \in C23_CallerPrints(k)

\* run_from_json and run_interactive let it pass: the exception leaves
\* them, nothing is printed about it and the agent is not run
C23_WebLetsPass ==
    prog = "web_cart_agent"
    => \A k \in C23_WebFailures :
          /\ pc = "exit"
          /\ raised = "ValueError"
          /\ k = Len(events)
          /\ Count("WebCartAgent.run") = 0

\* C23 (as claimed): a failure while constructing WebCartAgent is reported
\* rather than left unhandled: in run_cart_agent it is caught, appended to
\* the log as 'Error during execution: ...', and the generator ends
\* normally with the temp file removed; in run_from_json and
\* run_interactive it is caught and printed in the same way.
C23_ConstructorFailureReported ==
    [](C23_UIReports /\ C23_WebReports) /\ [][C23_UIRemovesFile]_vars

\* C23 (amended): in run_cart_agent a failure while constructing
\* WebCartAgent is caught, appended to the log as 'Error during execution:
\* ...', and the generator ends normally with the temp file removed; in
\* run_from_json and run_interactive the constructor is called outside the
\* try, so the exception leaves them unprinted and the agent is not run.
C23_ConstructorFailureReportedByFormOnly ==
    [](C23_UIReports /\ C23_WebLetsPass) /\ [][C23_UIRemovesFile]_vars

\* an invocation of run_cart_agent whose constructor raised has ended
\* without an exception and the temp file is gone
C23_Witness ==
    /\ prog = "web_cart_ui"
    /\ \E i \in Invocations :
          /\ C23_UIConstructorFailed(i)
          /\ inv[i].pc = "done"
          /\ ~inv[i].closed
          /\ inv[i].raised = ""
          /\ LogHas(i, "Error during execution")
    /\ file = None

(***************************************************************************)
(* Claims about the items section of the task                              *)
(***************************************************************************)
\* the position of the k-th Item line among the lines of an items section
C24_Head(lines, k) ==
    CHOOSE j \in DOMAIN lines :
       /\ lines[j].line = "Item"
       /\ Cardinality({m \in 1..j : lines[m].line = "Item"}) = k

\* the lines after the k-th Item line up to the next one, or to the end
C24_Entry(lines, k, n) ==
    SubSeq(lines, C24_Head(lines, k) + 1,
           IF k < n THEN C24_Head(lines, k + 1) - 1 ELSE Len(lines))

\* the lines of an entry that are of one kind, in order
C24_Of(entry, kind) == SelectSeq(entry, LAMBDA x : x.line = kind)

\* whether item has a value for key that is not empty
C24_Given(item, key) == HasKey(item, key) /\ Get(item, key, <<>>) # <<>>

\* C24: the items section built by WebCartAgent._create_task lists every
\* element of the item list exactly once, in list order, numbered 1..n
\* without gaps; each entry always has a Quantity line, equal to the
\* item's quantity or 1 when the item has none, and has a Description line
\* or an Options block only when that field is present and non-empty
C24_ItemsSection ==
    Constructed
    => LET items == loc.items
           n == Len(items)
           lines == agent.task[1].items_formatted
           heads == ItemHeads(agent.task)
       IN  /\ Len(heads) = n
           /\ n > 0 => lines[1].line = "Item"
           /\ n = 0 => lines = <<>>
           /\ \A k \in 1..n :
                LET item == items[k]
                    entry == C24_Entry(lines, k, n)
                IN  /\ heads[k].i = k
                    /\ heads[k].text = Get(item, "name", <<>>)
                    /\ C24_Of(entry, "Quantity")
                          = <<[line |-> "Quantity",
                               q |-> IF HasKey(item, "quantity")
                                     THEN Get(item, "quantity", 1) ELSE 1]>>
                    /\ C24_Of(entry, "Description")
                          = (IF C24_Given(item, "description")
                             THEN <<[line |-> "Description",
                                     text |-> Get(item, "description", <<>>)]>>
                             ELSE <<>>)
                    /\ Len(C24_Of(entry, "Options"))
                          = (IF C24_Given(item, "options") THEN 1 ELSE 0)
                    /\ LET given == C24_Of(entry, "Option")
                           options == Get(item, "options", <<>>)
                       IN  /\ Len(given) = Len(options)
                           /\ \A o \in DOMAIN options :
                                 /\ given[o].key = options[o][1]
                                 /\ given[o].value = options[o][2]

\* the task of a list of three items: one with all fields, one with empty
\* description and options, one with a name only
C24_Witness ==
    /\ Constructed
    /\ loc.items = <<Cable, Stand, Mouse>>
    /\ Len(ItemHeads(agent.task)) = 3
    /\ Len(QuantityLines(agent.task)) = 3
    /\ QuantityLines(agent.task)[3].q = 1

=============================================================================
